---- MODULE Spec2Model ----
(***************************************************************************)
(* PRECISE-HBR bleeding-risk engine: unit normalisation, observation       *)
(* resolution, condition/medication checks, the composite scorer, the      *)
(* calibration curve and the hazard-ratio trade-off entry point.           *)
(*                                                                         *)
(* Numbers are fixed point.  An observation's raw value is held in tenths  *)
(* of its source unit, a normalised value in millionths of the canonical   *)
(* unit (ValueScale), a conversion factor in units of 1/FactorScale and a  *)
(* score in units of 1/ScoreScale points.  The input sets below hold only  *)
(* values on which the source's binary floating point arithmetic and this  *)
(* exact arithmetic give the same rounded results.                         *)
(***************************************************************************)
EXTENDS Integers, Sequences, FiniteSets, TLC

VARIABLES
    cdss_config_file,   \* what open('cdss_config.json') found: "unread" before the load
    _CDSS_CONFIG,       \* the process-wide configuration singleton
    file_reads,         \* how many times cdss_config.json was opened
    pc,                 \* "import", "idle", a step of get_fhir_data, or "returned"
    call                \* the last call: its name, arguments, locals and result

vars == <<cdss_config_file, _CDSS_CONFIG, file_reads, pc, call>>

(***************************************************************************)
(* Python values                                                           *)
(***************************************************************************)
None == <<>>
Some(v) == <<v>>
IsNone(x) == x = <<>>
Val(x) == x[1]

\* a JSON string standing where a number is expected, such as "value": "12.5"
Str(s) == <<"str", s>>
\* isinstance(x, (int, float)) on a value that is not None
IsNumber(x) == Len(x) = 1

\* d.get(k, default) on a dict modelled as a function
Get(d, k, default) == IF k \in DOMAIN d THEN d[k] ELSE default

EmptyDict == <<>>

\* the sequence a + b of two lists
Concat(a, b) == a \o b

Range(s) == {s[i] : i \in 1..Len(s)}

ValueScale == 1000 * 1000
FactorScale == 100 * 1000
ScoreScale == 2 * 10 * ValueScale
TenthToValue == ValueScale \div 10

\* round(x) if an exact tie went up
round_half_up(n) == (2 * n + ScoreScale) \div (2 * ScoreScale)

\* Python 3 round(x) of x = n / ScoreScale: nearest integer, ties to even
round(n) ==
    LET q == n \div ScoreScale
        r == n % ScoreScale
    IN  IF 2 * r < ScoreScale THEN q
        ELSE IF 2 * r > ScoreScale THEN q + 1
        ELSE IF q % 2 = 0 THEN q ELSE q + 1

max(a, b) == IF a >= b THEN a ELSE b
min(a, b) == IF a <= b THEN a ELSE b

\* str.lower() on the unit and text strings of the model
lower(s) ==
    CASE s = "g/dL" -> "g/dl"
      [] s = "g/L" -> "g/l"
      [] s = "mg/dL" -> "mg/dl"
      [] s = "mmol/L" -> "mmol/l"
      [] s = "umol/L" -> "umol/l"
      [] s = "10*9/L" -> "10*9/l"
      [] s = "K/uL" -> "k/ul"
      [] s = "/uL" -> "/ul"
      [] s = "mL/min/1.73m2" -> "ml/min/1.73m2"
      [] s = "mL/min" -> "ml/min"
      [] s = "Warfarin" -> "warfarin"
      [] s = "Ibuprofen" -> "ibuprofen"
      [] s = "GI" -> "gi"
      [] s = "Bleeding" -> "bleeding"
      [] s = "Cancer" -> "cancer"
      [] s = "Cirrhosis" -> "cirrhosis"
      [] s = "Ascites" -> "ascites"
      [] OTHER -> s

\* str.strip() == '' on the unit strings of the model
IsBlank(s) == s \in {"", " "}

(***************************************************************************)
(* services/unit_conversion.py                                             *)
(***************************************************************************)
TARGET_UNITS ==
    [HEMOGLOBIN |->
        [unit |-> "g/dl",
         factors |-> ("g/l" :> 10000) @@ ("mmol/l" :> 161135) @@ ("mg/dl" :> 100)],
     CREATININE |->
        [unit |-> "mg/dl",
         factors |-> ("umol/l" :> 1130)],
     WBC |->
        [unit |-> "10*9/l",
         factors |-> ("10*3/ul" :> FactorScale) @@ ("k/ul" :> FactorScale)
                     @@ ("/ul" :> 100) @@ ("/mm3" :> 100)
                     @@ ("10^9/l" :> FactorScale) @@ ("giga/l" :> FactorScale)],
     EGFR |->
        [unit |-> "ml/min/1.73m2",
         factors |-> ("ml/min/1.73m2" :> FactorScale) @@ ("ml/min/{1.73_m2}" :> FactorScale)
                     @@ ("ml/min/1.73m^2" :> FactorScale) @@ ("ml/min/1.73 m2" :> FactorScale)
                     @@ ("ml/min/1.73 m^2" :> FactorScale)
                     @@ ("ml/min per 1.73m2" :> FactorScale)
                     @@ ("ml/min/bsa" :> FactorScale) @@ ("ml/min" :> FactorScale)],
     PLATELETS |->
        [unit |-> "10*9/l",
         factors |-> ("10*3/ul" :> FactorScale) @@ ("k/ul" :> FactorScale)
                     @@ ("/ul" :> 100) @@ ("10^9/l" :> FactorScale)
                     @@ ("giga/l" :> FactorScale)]]

\* get_value_from_observation with an unknown unit taken as the canonical one
get_value_from_observation_assuming_target(obs, unit_system) ==
    IF IsNone(obs.valueQuantity) THEN None
    ELSE LET value_quantity == Val(obs.valueQuantity)
             value == value_quantity.value
             source_unit == lower(value_quantity.unit)
         IN  IF IsNone(value) \/ ~IsNumber(value) THEN None
             ELSE IF source_unit \in DOMAIN unit_system.factors
                  THEN Some(Val(value) * unit_system.factors[source_unit])
             ELSE Some(Val(value) * TenthToValue)

\* An Observation is [valueQuantity |-> None or Some([value |-> None, Some(tenths) or
\* Str(text), unit |-> string]), effectiveDateTime |-> ...].  The result is None or
\* Some(value).
get_value_from_observation(obs, unit_system) ==
    IF IsNone(obs.valueQuantity) THEN None
    ELSE LET value_quantity == Val(obs.valueQuantity)
             value == value_quantity.value
             source_unit == lower(value_quantity.unit)
             target_unit == unit_system.unit
         IN  IF IsNone(value) \/ ~IsNumber(value) THEN None
             ELSE IF source_unit = "" \/ IsBlank(source_unit)
                  THEN Some(Val(value) * TenthToValue)
             ELSE IF source_unit = target_unit
                  THEN Some(Val(value) * TenthToValue)
             ELSE IF lower(source_unit) = lower(target_unit)
                  THEN Some(Val(value) * TenthToValue)
             ELSE IF source_unit \in DOMAIN unit_system.factors
                  THEN Some(Val(value) * unit_system.factors[source_unit])
             ELSE None

(***************************************************************************)
(* services/cdss_config_loader.py                                          *)
(***************************************************************************)
\* What json.load yields for a well-formed cdss_config.json.
CDSS_CONFIG_JSON ==
    [medication_keywords |->
        [oral_anticoagulants |->
            [generic_names |-> <<"warfarin", "apixaban">>,
             brand_names |-> <<"coumadin">>],
         nsaids_corticosteroids |->
            [nsaid_keywords |-> <<"ibuprofen">>,
             corticosteroid_keywords |-> <<"prednisone">>]],
     precise_hbr_snomed_codes |->
        [prior_bleeding |-> [specific_codes |-> <<"131148009">>],
         bleeding_diathesis |-> [specific_codes |-> <<"64779008">>],
         active_cancer |->
            [parent_code |-> "363346000",
             exclude_codes |-> <<"254637007", "254632001">>],
         liver_cirrhosis |->
            [parent_code |-> "19943007",
             cirrhosis_keywords |-> <<"cirrhosis">>,
             portal_hypertension_criteria |->
                [additional_criteria |-> <<"ascites", "portal hypertension",
                                           "esophageal varices", "hepatic encephalopathy">>,
                 snomed_codes |-> <<"34742003">>]],
         thrombocytopenia |-> [threshold |-> [value |-> 100 * ValueScale]]],
     laboratory_value_extraction |->
        [egfr_loinc_codes |-> <<"33914-3">>,
         creatinine_loinc_codes |-> <<"2160-0">>,
         hemoglobin_loinc_codes |-> <<"718-7">>,
         white_blood_cell_loinc_codes |-> <<"6690-2">>,
         platelet_loinc_codes |-> <<"777-3">>,
         egfr_text_search |-> <<"egfr">>,
         creatinine_text_search |-> <<"creatinine">>,
         hemoglobin_text_search |-> <<"hemoglobin", "hgb">>,
         wbc_text_search |-> <<"wbc">>,
         platelet_text_search |-> <<"platelet">>]]

\* load_cdss_config: the value the singleton holds after the call.  The file is opened only
\* when the singleton is still None; a missing or malformed file leaves the empty dict.
load_cdss_config(current, file) ==
    IF ~IsNone(current) THEN current
    ELSE IF file = "ok" THEN Some(CDSS_CONFIG_JSON)
    ELSE Some(EmptyDict)

\* get_cdss_config if it read the file at every call
get_cdss_config_reloading(current, file) ==
    IF file = "ok" THEN Some(CDSS_CONFIG_JSON) ELSE Some(EmptyDict)

\* get_cdss_config: the singleton after the call; Val of it is the dict returned.
get_cdss_config(current, file) ==
    IF IsNone(current) THEN load_cdss_config(current, file) ELSE current

\* whether a get_cdss_config call opens the file
OpensFile(current) == IsNone(current)

(***************************************************************************)
(* services/fhir_utils.py                                                  *)
(***************************************************************************)
Lowered(tokens) == [i \in 1..Len(tokens) |-> lower(tokens[i])]

\* get_condition_text: code.text and every coding's display, joined.  Text is a sequence
\* of tokens; "keyword in text" is membership of the keyword among the tokens.
RECURSIVE JoinDisplays(_)
JoinDisplays(codings) ==
    IF codings = <<>> THEN <<>>
    ELSE Head(codings).display \o JoinDisplays(Tail(codings))

get_condition_text(condition) ==
    condition.code.text \o JoinDisplays(condition.code.coding)

Contains(text, keyword) == keyword \in Range(text)

\* any(keyword in text for keyword in keywords)
AnyIn(keywords, text) == \E i \in 1..Len(keywords) : Contains(text, keywords[i])

SNOMED == "http://snomed.info/sct"

(***************************************************************************)
(* services/condition_checkers.py                                          *)
(* A Condition is [code |-> [coding |-> <<[system, code, display]>>,       *)
(* text |-> tokens], clinicalStatus |-> <<[system, code]>>]; a medication  *)
(* is [medicationCodeableConcept |-> tokens].                              *)
(***************************************************************************)
CONDITION_CLINICAL == "http://terminology.hl7.org/CodeSystem/condition-clinical"

\* the check with the brand names as the only keywords
check_oral_anticoagulation_brand_names(config, medications) ==
    LET med_config == Get(config, "medication_keywords", EmptyDict)
        oac_config == Get(med_config, "oral_anticoagulants", EmptyDict)
        anticoagulant_codes == Get(oac_config, "brand_names", <<>>)
    IN  \E m \in 1..Len(medications) :
            AnyIn(anticoagulant_codes, Lowered(medications[m].medicationCodeableConcept))

check_oral_anticoagulation(config, medications) ==
    LET med_config == Get(config, "medication_keywords", EmptyDict)
        oac_config == Get(med_config, "oral_anticoagulants", EmptyDict)
        anticoagulant_codes == Concat(Get(oac_config, "generic_names", <<>>),
                                      Get(oac_config, "brand_names", <<>>))
    IN  \E m \in 1..Len(medications) :
            AnyIn(anticoagulant_codes, Lowered(medications[m].medicationCodeableConcept))

BLEEDING_DIATHESIS_KEYWORDS ==
    <<"bleeding disorder", "bleeding diathesis", "hemorrhagic diathesis",
      "hemophilia", "von willebrand", "coagulation disorder">>

check_bleeding_diathesis_updated(config, conditions) ==
    LET snomed_config == Get(config, "precise_hbr_snomed_codes", EmptyDict)
        diathesis_config == Get(snomed_config, "bleeding_diathesis", EmptyDict)
        bleeding_diathesis_snomed_codes ==
            Get(diathesis_config, "specific_codes", <<"64779008">>)
    IN  \E c \in 1..Len(conditions) :
            \/ \E k \in 1..Len(conditions[c].code.coding) :
                   /\ conditions[c].code.coding[k].system = SNOMED
                   /\ conditions[c].code.coding[k].code \in Range(bleeding_diathesis_snomed_codes)
            \/ AnyIn(BLEEDING_DIATHESIS_KEYWORDS, Lowered(get_condition_text(conditions[c])))

PRIOR_BLEEDING_KEYWORDS ==
    <<"hemorrhage", "bleeding", "hemarthrosis", "hematuria", "hemothorax",
      "hemopericardium", "hemoperitoneum", "retroperitoneal hematoma">>

\* The evidence one condition adds to found_bleeding: the display of every coding that
\* carries a configured code, then the condition's text when it holds a keyword.
RECURSIVE CodedEvidence(_, _)
CodedEvidence(codings, codes) ==
    IF codings = <<>> THEN <<>>
    ELSE (IF Head(codings).system = SNOMED /\ Head(codings).code \in Range(codes)
          THEN <<IF Head(codings).display = <<>> THEN <<"Prior bleeding">>
                 ELSE Head(codings).display>>
          ELSE <<>>) \o CodedEvidence(Tail(codings), codes)

RECURSIVE FoundBleeding(_, _)
FoundBleeding(conditions, codes) ==
    IF conditions = <<>> THEN <<>>
    ELSE LET condition == Head(conditions)
             condition_text == Lowered(get_condition_text(condition))
         IN  CodedEvidence(condition.code.coding, codes)
             \o (IF AnyIn(PRIOR_BLEEDING_KEYWORDS, condition_text)
                 THEN <<condition_text>> ELSE <<>>)
             \o FoundBleeding(Tail(conditions), codes)

\* returns [has |-> len(found_bleeding) > 0, evidence |-> found_bleeding]
check_prior_bleeding_updated(config, conditions) ==
    LET snomed_config == Get(config, "precise_hbr_snomed_codes", EmptyDict)
        prior_bleeding_config == Get(snomed_config, "prior_bleeding", EmptyDict)
        prior_bleeding_snomed_codes == Get(prior_bleeding_config, "specific_codes", <<>>)
        found_bleeding == FoundBleeding(conditions, prior_bleeding_snomed_codes)
    IN  [has |-> Len(found_bleeding) > 0, evidence |-> found_bleeding]

\* the liver check if either kind of evidence were enough
check_liver_cirrhosis_or_portal_hypertension(config, conditions) ==
    LET snomed_config == Get(config, "precise_hbr_snomed_codes", EmptyDict)
        liver_config == Get(snomed_config, "liver_cirrhosis", EmptyDict)
        cirrhosis_snomed_code == Get(liver_config, "parent_code", "19943007")
        cirrhosis_keywords == Get(liver_config, "cirrhosis_keywords", <<"cirrhosis">>)
        pht_config == Get(liver_config, "portal_hypertension_criteria", EmptyDict)
        additional_criteria ==
            Get(pht_config, "additional_criteria",
                <<"ascites", "portal hypertension", "esophageal varices",
                  "hepatic encephalopathy">>)
        pht_snomed_codes == Get(pht_config, "snomed_codes", <<>>)
    IN  \E c \in 1..Len(conditions) :
            \/ \E k \in 1..Len(conditions[c].code.coding) :
                   /\ conditions[c].code.coding[k].system = SNOMED
                   /\ conditions[c].code.coding[k].code
                          \in {cirrhosis_snomed_code} \cup Range(pht_snomed_codes)
            \/ AnyIn(Concat(cirrhosis_keywords, additional_criteria),
                     Lowered(get_condition_text(conditions[c])))

check_liver_cirrhosis_portal_hypertension_updated(config, conditions) ==
    LET snomed_config == Get(config, "precise_hbr_snomed_codes", EmptyDict)
        liver_config == Get(snomed_config, "liver_cirrhosis", EmptyDict)
        cirrhosis_snomed_code == Get(liver_config, "parent_code", "19943007")
        cirrhosis_keywords == Get(liver_config, "cirrhosis_keywords", <<"cirrhosis">>)
        pht_config == Get(liver_config, "portal_hypertension_criteria", EmptyDict)
        additional_criteria ==
            Get(pht_config, "additional_criteria",
                <<"ascites", "portal hypertension", "esophageal varices",
                  "hepatic encephalopathy">>)
        pht_snomed_codes == Get(pht_config, "snomed_codes", <<>>)
        has_cirrhosis ==
            \E c \in 1..Len(conditions) :
                \/ \E k \in 1..Len(conditions[c].code.coding) :
                       /\ conditions[c].code.coding[k].system = SNOMED
                       /\ conditions[c].code.coding[k].code = cirrhosis_snomed_code
                \/ AnyIn(cirrhosis_keywords, Lowered(get_condition_text(conditions[c])))
        has_additional_criteria ==
            \E c \in 1..Len(conditions) :
                \/ \E k \in 1..Len(conditions[c].code.coding) :
                       /\ conditions[c].code.coding[k].system = SNOMED
                       /\ conditions[c].code.coding[k].code \in Range(pht_snomed_codes)
                \/ AnyIn(additional_criteria, Lowered(get_condition_text(conditions[c])))
    IN  has_cirrhosis /\ has_additional_criteria

CANCER_KEYWORDS ==
    <<"cancer", "malignancy", "neoplasm", "carcinoma", "sarcoma", "lymphoma", "leukemia">>
CANCER_EXCLUSION_KEYWORDS == <<"basal cell", "squamous cell", "skin cancer">>

\* the code of the first clinicalStatus coding of the condition-clinical system, or None
RECURSIVE StatusCode(_)
StatusCode(codings) ==
    IF codings = <<>> THEN None
    ELSE IF Head(codings).system = CONDITION_CLINICAL THEN Some(Head(codings).code)
    ELSE StatusCode(Tail(codings))

\* check_active_cancer_updated without the test of the clinical status
check_active_cancer_updated_any_status(config, conditions) ==
    LET snomed_config == Get(config, "precise_hbr_snomed_codes", EmptyDict)
        cancer_config == Get(snomed_config, "active_cancer", EmptyDict)
        malignancy_parent_code == Get(cancer_config, "parent_code", "363346000")
    IN  \E c \in 1..Len(conditions) :
            LET condition == conditions[c]
                condition_text == Lowered(get_condition_text(condition))
            IN  \/ \E k \in 1..Len(condition.code.coding) :
                       /\ condition.code.coding[k].system = SNOMED
                       /\ condition.code.coding[k].code = malignancy_parent_code
                \/ /\ ~AnyIn(CANCER_EXCLUSION_KEYWORDS, condition_text)
                   /\ AnyIn(CANCER_KEYWORDS, condition_text)

check_active_cancer_updated(config, conditions) ==
    LET snomed_config == Get(config, "precise_hbr_snomed_codes", EmptyDict)
        cancer_config == Get(snomed_config, "active_cancer", EmptyDict)
        malignancy_parent_code == Get(cancer_config, "parent_code", "363346000")
        excluded_codes == Get(cancer_config, "exclude_codes", <<"254637007", "254632001">>)
    IN  \E c \in 1..Len(conditions) :
            LET condition == conditions[c]
                condition_text == Lowered(get_condition_text(condition))
            IN  /\ StatusCode(condition.clinicalStatus) = Some("active")
                /\ \/ \E k \in 1..Len(condition.code.coding) :
                          /\ condition.code.coding[k].system = SNOMED
                          /\ condition.code.coding[k].code \notin Range(excluded_codes)
                          /\ condition.code.coding[k].code = malignancy_parent_code
                   \/ /\ ~AnyIn(CANCER_EXCLUSION_KEYWORDS, condition_text)
                      /\ AnyIn(CANCER_KEYWORDS, condition_text)

DEFAULT_PLATELET_THRESHOLD == 100 * ValueScale

\* "if plt_val": a Python number is truthy unless it is 0
Truthy(x) == ~IsNone(x) /\ Val(x) # 0

First(list) == list[1]

check_arc_hbr_factors_detailed(config, raw_data, medications) ==
    LET conditions == Get(raw_data, "conditions", <<>>)
        snomed_config == Get(config, "precise_hbr_snomed_codes", EmptyDict)
        thrombocytopenia_config == Get(snomed_config, "thrombocytopenia", EmptyDict)
        platelet_threshold ==
            Get(Get(thrombocytopenia_config, "threshold", EmptyDict), "value",
                DEFAULT_PLATELET_THRESHOLD)
        platelets == Get(raw_data, "PLATELETS", <<>>)
        plt_val == IF platelets # <<>>
                   THEN get_value_from_observation(First(platelets), TARGET_UNITS.PLATELETS)
                   ELSE None
        has_thrombocytopenia ==
            platelets # <<>> /\ Truthy(plt_val) /\ Val(plt_val) < platelet_threshold
        has_bleeding_diathesis == check_bleeding_diathesis_updated(config, conditions)
        has_active_cancer == check_active_cancer_updated(config, conditions)
        has_liver_condition ==
            check_liver_cirrhosis_portal_hypertension_updated(config, conditions)
        med_config == Get(config, "medication_keywords", EmptyDict)
        nsaid_config == Get(med_config, "nsaids_corticosteroids", EmptyDict)
        drug_codes == Concat(Get(nsaid_config, "nsaid_keywords", <<>>),
                             Get(nsaid_config, "corticosteroid_keywords", <<>>))
        has_nsaids ==
            \E m \in 1..Len(medications) :
                AnyIn(drug_codes, Lowered(medications[m].medicationCodeableConcept))
    IN  [has_any_factor |-> \/ has_thrombocytopenia
                            \/ has_bleeding_diathesis
                            \/ has_active_cancer
                            \/ has_liver_condition
                            \/ has_nsaids,
         thrombocytopenia |-> has_thrombocytopenia,
         bleeding_diathesis |-> has_bleeding_diathesis,
         active_malignancy |-> has_active_cancer,
         liver_cirrhosis |-> has_liver_condition,
         nsaids_corticosteroids |-> has_nsaids]

(***************************************************************************)
(* services/fhir_utils.py: calculate_egfr                                  *)
(***************************************************************************)
\* round(142 * min(cr/k, 1)^alpha * max(cr/k, 1)^-1.2 * 0.9938^age [* 1.012]), tabulated
\* from the formula for the creatinine values (mg/dL, in 1/ValueScale) and ages of the
\* model: the powers have real exponents.
CKD_EPI_2021(cr_val, age, gender) ==
    LET row ==
            CASE cr_val = 1000000 /\ gender = "male" ->
                     (25 :> 107) @@ (49 :> 92) @@ (50 :> 92) @@ (80 :> 76) @@ (95 :> 69)
              [] cr_val = 1000000 /\ gender = "female" ->
                     (25 :> 80) @@ (49 :> 69) @@ (50 :> 69) @@ (80 :> 57) @@ (95 :> 52)
              [] cr_val = 2000100 /\ gender = "male" ->
                     (25 :> 47) @@ (49 :> 40) @@ (50 :> 40) @@ (80 :> 33) @@ (95 :> 30)
              [] cr_val = 2000100 /\ gender = "female" ->
                     (25 :> 35) @@ (49 :> 30) @@ (50 :> 30) @@ (80 :> 25) @@ (95 :> 23)
    IN  row[age]

\* cr_val is a number (None is never passed); age and gender are None or Some(v).
\* The result is None or Some(eGFR in 1/ValueScale).
calculate_egfr(cr_val, age, gender) ==
    IF \/ cr_val = 0
       \/ ~Truthy(age)
       \/ IsNone(gender) \/ Val(gender) = ""
       \/ Val(gender) \notin {"male", "female"}
    THEN None
    ELSE Some(CKD_EPI_2021(cr_val, Val(age), Val(gender)) * ValueScale)

(***************************************************************************)
(* services/precise_hbr_calculator.py                                      *)
(***************************************************************************)
base_score == 2
MIN_AGE == 30
MAX_AGE == 80
MIN_HB == 5 * ValueScale
MAX_HB == 15 * ValueScale
MIN_EGFR == 5 * ValueScale
MAX_EGFR == 100 * ValueScale
MAX_WBC == 15 * ValueScale

\* the coefficients 0.25, 2.5, 0.05 and 0.8, from a value difference to score units
AGE_COEFF == ScoreScale \div 4
HB_COEFF == (5 * ScoreScale) \div (2 * ValueScale)
EGFR_COEFF == ScoreScale \div (20 * ValueScale)
WBC_COEFF == (4 * ScoreScale) \div (5 * ValueScale)

NotAvailable(parameter, text) ==
    [parameter |-> parameter, value |-> text, score |-> 0, raw_value |-> None]

\* Each Score* operator is one numbered block of calculate_precise_hbr_score: the
\* component it appends and what it adds to total_score (in 1/ScoreScale).
ScoreAge(demographics) ==
    LET age == demographics.age
    IN  IF Truthy(age)
        THEN LET effective_age == max(MIN_AGE, min(MAX_AGE, Val(age)))
                 age_score_raw == (effective_age - 30) * AGE_COEFF
             IN  [component |->
                      [parameter |-> "PRECISE-HBR - Age", value |-> "years",
                       score |-> IF effective_age > 30 THEN round(age_score_raw) ELSE 0,
                       raw_value |-> age, effective |-> effective_age],
                  added |-> IF effective_age > 30 THEN age_score_raw ELSE 0]
        ELSE [component |-> NotAvailable("PRECISE-HBR - Age", "Unknown"), added |-> 0]

ScoreHemoglobin(raw_data) ==
    LET hemoglobin_list == Get(raw_data, "HEMOGLOBIN", <<>>)
        missing == [component |-> NotAvailable("PRECISE-HBR - Hemoglobin", "Not available"),
                    added |-> 0]
    IN  IF hemoglobin_list # <<>>
        THEN LET hb_val == get_value_from_observation(First(hemoglobin_list),
                                                      TARGET_UNITS.HEMOGLOBIN)
             IN  IF Truthy(hb_val)
                 THEN LET effective_hb == max(MIN_HB, min(MAX_HB, Val(hb_val)))
                          hb_score_raw == (15 * ValueScale - effective_hb) * HB_COEFF
                      IN  [component |->
                               [parameter |-> "PRECISE-HBR - Hemoglobin",
                                value |-> TARGET_UNITS.HEMOGLOBIN.unit,
                                score |-> IF effective_hb < 15 * ValueScale
                                          THEN round(hb_score_raw) ELSE 0,
                                raw_value |-> hb_val, effective |-> effective_hb],
                           added |-> IF effective_hb < 15 * ValueScale
                                     THEN hb_score_raw ELSE 0]
                 ELSE missing
        ELSE missing

\* EgfrValue with the creatinine route tried first and the direct observation second
EgfrValueCreatinineFirst(raw_data, demographics) ==
    LET egfr_list == Get(raw_data, "EGFR", <<>>)
        creatinine_list == Get(raw_data, "CREATININE", <<>>)
        creatinine_val ==
            IF creatinine_list # <<>>
            THEN get_value_from_observation(First(creatinine_list),
                                            TARGET_UNITS.CREATININE)
            ELSE None
        calculated_egfr ==
            IF Truthy(creatinine_val)
            THEN calculate_egfr(Val(creatinine_val), demographics.age,
                                demographics.gender)
            ELSE None
    IN  IF Truthy(calculated_egfr)
        THEN [egfr_val |-> calculated_egfr, egfr_source |-> "CKD-EPI 2021"]
        ELSE IF egfr_list # <<>>
        THEN [egfr_val |-> get_value_from_observation(First(egfr_list), TARGET_UNITS.EGFR),
              egfr_source |-> "Direct eGFR"]
        ELSE [egfr_val |-> None, egfr_source |-> ""]

\* the eGFR value the scorer uses: the direct observation when the EGFR list is not
\* empty, else the creatinine route
EgfrValue(raw_data, demographics) ==
    LET egfr_list == Get(raw_data, "EGFR", <<>>)
        creatinine_list == Get(raw_data, "CREATININE", <<>>)
        age == demographics.age
    IN  IF egfr_list # <<>>
        THEN [egfr_val |-> get_value_from_observation(First(egfr_list), TARGET_UNITS.EGFR),
              egfr_source |-> "Direct eGFR"]
        ELSE IF creatinine_list # <<>> /\ Truthy(age)
                /\ ~IsNone(demographics.gender) /\ Val(demographics.gender) # ""
        THEN LET creatinine_val ==
                     get_value_from_observation(First(creatinine_list),
                                                TARGET_UNITS.CREATININE)
                 calculated_egfr ==
                     IF Truthy(creatinine_val)
                     THEN calculate_egfr(Val(creatinine_val), age, demographics.gender)
                     ELSE None
             IN  IF Truthy(calculated_egfr)
                 THEN [egfr_val |-> calculated_egfr, egfr_source |-> "CKD-EPI 2021"]
                 ELSE [egfr_val |-> None, egfr_source |-> ""]
        ELSE [egfr_val |-> None, egfr_source |-> ""]

ScoreEgfr(raw_data, demographics) ==
    LET e == EgfrValue(raw_data, demographics)
        egfr_val == e.egfr_val
    IN  IF Truthy(egfr_val)
        THEN LET effective_egfr == max(MIN_EGFR, min(MAX_EGFR, Val(egfr_val)))
                 egfr_score_raw == (100 * ValueScale - effective_egfr) * EGFR_COEFF
             IN  [component |->
                      [parameter |-> "PRECISE-HBR - eGFR", value |-> e.egfr_source,
                       score |-> IF effective_egfr < 100 * ValueScale
                                 THEN round(egfr_score_raw) ELSE 0,
                       raw_value |-> egfr_val, effective |-> effective_egfr],
                  added |-> IF effective_egfr < 100 * ValueScale
                            THEN egfr_score_raw ELSE 0]
        ELSE [component |-> NotAvailable("PRECISE-HBR - eGFR", "Not available"),
              added |-> 0]

ScoreWbc(raw_data) ==
    LET wbc_list == Get(raw_data, "WBC", <<>>)
        missing == [component |->
                        NotAvailable("PRECISE-HBR - White Blood Cell Count", "Not available"),
                    added |-> 0]
    IN  IF wbc_list # <<>>
        THEN LET wbc_val == get_value_from_observation(First(wbc_list), TARGET_UNITS.WBC)
             IN  IF Truthy(wbc_val)
                 THEN LET effective_wbc == min(MAX_WBC, Val(wbc_val))
                          wbc_score_raw == (effective_wbc - 3 * ValueScale) * WBC_COEFF
                      IN  [component |->
                               [parameter |-> "PRECISE-HBR - White Blood Cell Count",
                                value |-> TARGET_UNITS.WBC.unit,
                                score |-> IF effective_wbc > 3 * ValueScale
                                          THEN round(wbc_score_raw) ELSE 0,
                                raw_value |-> wbc_val, effective |-> effective_wbc],
                           added |-> IF effective_wbc > 3 * ValueScale
                                     THEN wbc_score_raw ELSE 0]
                 ELSE missing
        ELSE missing

Flag(parameter, present, score) ==
    [parameter |-> parameter, value |-> IF present THEN "Yes" ELSE "No",
     score |-> score, is_present |-> present]

\* the ARC-HBR delta if every sub-factor that is true added its own 3 points
ArcHbrScorePerFactor(arc_hbr_details) ==
    3 * Cardinality({k \in {"thrombocytopenia", "bleeding_diathesis", "active_malignancy",
                            "liver_cirrhosis", "nsaids_corticosteroids"} :
                        arc_hbr_details[k]})

\* arc_hbr_score = 3 if has_arc_factors else 0
ArcHbrScore(arc_hbr_details) == IF arc_hbr_details.has_any_factor THEN 3 ELSE 0

\* the accumulation if the displayed integer score of a block were what is summed
AccumulateRounded(block) == block.component.score * ScoreScale

\* what a block adds to the running total: the unrounded contribution
Accumulate(block) == block.added

\* the scorer if it listed, after the base score, only the continuous components that
\* have a value
calculate_precise_hbr_score_omitting_unavailable(config, raw_data, demographics) ==
    LET blocks == <<ScoreAge(demographics), ScoreHemoglobin(raw_data),
                    ScoreEgfr(raw_data, demographics), ScoreWbc(raw_data)>>
        available == SelectSeq(blocks, LAMBDA block : ~IsNone(block.component.raw_value))
        total_score == base_score * ScoreScale
                       + blocks[1].added + blocks[2].added
                       + blocks[3].added + blocks[4].added
    IN  [components |->
             <<[parameter |-> "PRECISE-HBR - Base Score", value |-> "Fixed base score",
                score |-> base_score]>>
             \o [i \in 1..Len(available) |-> available[i].component],
         total_score |-> total_score,
         final_score |-> round(total_score)]

\* calculate_precise_hbr_score(raw_data, demographics) under the configuration `config`:
\* the components, the running total (a local, in 1/ScoreScale) and the final score
calculate_precise_hbr_score(config, raw_data, demographics) ==
    LET age_block == ScoreAge(demographics)
        hb_block == ScoreHemoglobin(raw_data)
        egfr_block == ScoreEgfr(raw_data, demographics)
        wbc_block == ScoreWbc(raw_data)
        conditions == Get(raw_data, "conditions", <<>>)
        bleeding == check_prior_bleeding_updated(config, conditions)
        bleeding_score == IF bleeding.has THEN 7 ELSE 0
        medications == Get(raw_data, "med_requests", <<>>)
        has_anticoagulation == check_oral_anticoagulation(config, medications)
        anticoag_score == IF has_anticoagulation THEN 5 ELSE 0
        arc_hbr_details == check_arc_hbr_factors_detailed(config, raw_data, medications)
        has_arc_factors == arc_hbr_details.has_any_factor
        arc_hbr_score == ArcHbrScore(arc_hbr_details)
        total_score ==
            base_score * ScoreScale
            + Accumulate(age_block) + Accumulate(hb_block)
            + Accumulate(egfr_block) + Accumulate(wbc_block)
            + bleeding_score * ScoreScale
            + anticoag_score * ScoreScale
            + arc_hbr_score * ScoreScale
        components ==
            << [parameter |-> "PRECISE-HBR - Base Score", value |-> "Fixed base score",
                score |-> base_score],
               age_block.component,
               hb_block.component,
               egfr_block.component,
               wbc_block.component,
               [parameter |-> "PRECISE-HBR - Prior Bleeding",
                value |-> IF bleeding.has THEN "Yes" ELSE "No",
                score |-> bleeding_score, is_present |-> bleeding.has,
                evidence |-> bleeding.evidence],
               Flag("PRECISE-HBR - Oral Anticoagulation", has_anticoagulation, anticoag_score),
               Flag("PRECISE-HBR - Platelet Count", arc_hbr_details.thrombocytopenia, 0),
               Flag("PRECISE-HBR - Chronic Bleeding Diathesis",
                    arc_hbr_details.bleeding_diathesis, 0),
               Flag("PRECISE-HBR - Liver Cirrhosis", arc_hbr_details.liver_cirrhosis, 0),
               Flag("PRECISE-HBR - Active Malignancy", arc_hbr_details.active_malignancy, 0),
               Flag("PRECISE-HBR - NSAIDs/Corticosteroids",
                    arc_hbr_details.nsaids_corticosteroids, 0),
               Flag("PRECISE-HBR - ARC-HBR Summary", has_arc_factors, arc_hbr_score) >>
    IN  [components |-> components,
         total_score |-> total_score,
         final_score |-> round(total_score)]

\* A risk percentage is held in units of 1/RiskScale percent: 22, 4, 5 and 10, the
\* divisors of the five segments, all divide RiskScale.
RiskScale == 44 * 100

\* the curve without the cap of its last segment
calculate_bleeding_risk_percentage_uncapped(precise_hbr_score) ==
    IF precise_hbr_score <= 22
    THEN min((7 * RiskScale) \div 2,
             RiskScale \div 2 + precise_hbr_score * ((3 * RiskScale) \div 22))
    ELSE IF precise_hbr_score <= 26
    THEN min((11 * RiskScale) \div 2,
             (7 * RiskScale) \div 2 + (precise_hbr_score - 22) * ((2 * RiskScale) \div 4))
    ELSE IF precise_hbr_score <= 30
    THEN min(8 * RiskScale,
             (11 * RiskScale) \div 2 + (precise_hbr_score - 26) * ((5 * RiskScale) \div 8))
    ELSE IF precise_hbr_score <= 35
    THEN min(12 * RiskScale,
             8 * RiskScale + (precise_hbr_score - 30) * ((4 * RiskScale) \div 5))
    ELSE 12 * RiskScale + (precise_hbr_score - 35) * ((3 * RiskScale) \div 10)

calculate_bleeding_risk_percentage(precise_hbr_score) ==
    IF precise_hbr_score <= 22
    THEN min((7 * RiskScale) \div 2,
             RiskScale \div 2 + precise_hbr_score * ((3 * RiskScale) \div 22))
    ELSE IF precise_hbr_score <= 26
    THEN min((11 * RiskScale) \div 2,
             (7 * RiskScale) \div 2 + (precise_hbr_score - 22) * ((2 * RiskScale) \div 4))
    ELSE IF precise_hbr_score <= 30
    THEN min(8 * RiskScale,
             (11 * RiskScale) \div 2 + (precise_hbr_score - 26) * ((5 * RiskScale) \div 8))
    ELSE IF precise_hbr_score <= 35
    THEN min(12 * RiskScale,
             8 * RiskScale + (precise_hbr_score - 30) * ((4 * RiskScale) \div 5))
    ELSE min(15 * RiskScale,
             12 * RiskScale + (precise_hbr_score - 35) * ((3 * RiskScale) \div 10))

\* f"{x:.1f}": x (in 1/RiskScale) to the nearest tenth, an exact tie to the even tenth
FormatTenths(x) ==
    LET unit == RiskScale \div 10
        q == x \div unit
        r == x % unit
    IN  IF 2 * r < unit THEN q
        ELSE IF 2 * r > unit THEN q + 1
        ELSE IF q % 2 = 0 THEN q ELSE q + 1

\* the categories with strict comparisons at the two thresholds
get_risk_category_info_strict(precise_hbr_score) ==
    IF precise_hbr_score < 22
    THEN [category |-> "Not high bleeding risk", color |-> "success",
          bleeding_risk_percent |-> 0, score_range |-> "(score <=22)"]
    ELSE IF precise_hbr_score < 26
    THEN [category |-> "HBR", color |-> "warning",
          bleeding_risk_percent |-> 0, score_range |-> "(score 23-26)"]
    ELSE [category |-> "Very HBR", color |-> "danger",
          bleeding_risk_percent |-> 0, score_range |-> "(score >=27)"]

get_risk_category_info(precise_hbr_score) ==
    LET bleeding_risk_percent == calculate_bleeding_risk_percentage(precise_hbr_score)
    IN  IF precise_hbr_score <= 22
        THEN [category |-> "Not high bleeding risk", color |-> "success",
              bleeding_risk_percent |-> FormatTenths(bleeding_risk_percent),
              score_range |-> "(score <=22)"]
        ELSE IF precise_hbr_score <= 26
        THEN [category |-> "HBR", color |-> "warning",
              bleeding_risk_percent |-> FormatTenths(bleeding_risk_percent),
              score_range |-> "(score 23-26)"]
        ELSE [category |-> "Very HBR", color |-> "danger",
              bleeding_risk_percent |-> FormatTenths(bleeding_risk_percent),
              score_range |-> "(score >=27)"]

\* f"{x:.2f}": x (in 1/RiskScale) to the nearest hundredth, an exact tie to the even one
FormatHundredths(x) ==
    LET unit == RiskScale \div 100
        q == x \div unit
        r == x % unit
    IN  IF 2 * r < unit THEN q
        ELSE IF 2 * r > unit THEN q + 1
        ELSE IF q % 2 = 0 THEN q ELSE q + 1

\* the display information with the one-decimal percentage of the category information
get_precise_hbr_display_info_one_decimal(precise_hbr_score) ==
    LET risk_info == get_risk_category_info(precise_hbr_score)
    IN  [score |-> precise_hbr_score,
         risk_category |-> risk_info.category,
         score_range |-> risk_info.score_range,
         bleeding_risk_percent |-> 10 * risk_info.bleeding_risk_percent,
         color_class |-> risk_info.color,
         full_label |-> <<risk_info.category, risk_info.score_range>>]

\* bleeding_risk_percent is the f"{x:.2f}" text, held in hundredths of a percent
get_precise_hbr_display_info(precise_hbr_score) ==
    LET risk_info == get_risk_category_info(precise_hbr_score)
        bleeding_risk_percent == calculate_bleeding_risk_percentage(precise_hbr_score)
    IN  [score |-> precise_hbr_score,
         risk_category |-> risk_info.category,
         score_range |-> risk_info.score_range,
         bleeding_risk_percent |-> FormatHundredths(bleeding_risk_percent),
         color_class |-> risk_info.color,
         full_label |-> <<risk_info.category, risk_info.score_range>>]


(***************************************************************************)
(* services/tradeoff_calculator.py                                         *)
(* A predictor's hazard ratio is held in hundredths, a baseline rate in    *)
(* tenths of a percent, an aggregate hazard ratio in units of 1/HRScale    *)
(* and a probability in hundredths of a percent.                           *)
(***************************************************************************)
\* What json.load yields for a well-formed arc-hbr-model.json.
ARC_HBR_MODEL_JSON ==
    [tradeoffModel |->
        [bleedingEvents |->
            [predictors |->
                <<[factor |-> "age_ge_65", hazardRatio |-> 150, description |-> "Age >= 65"],
                  [factor |-> "smoker", hazardRatio |-> 147, description |-> "Smoker"],
                  [factor |-> "copd", hazardRatio |-> 139, description |-> "COPD"]>>],
         thromboticEvents |->
            [predictors |->
                <<[factor |-> "diabetes", hazardRatio |-> 156, description |-> "Diabetes"],
                  [factor |-> "smoker", hazardRatio |-> 148, description |-> "Smoker"]>>]]]

\* get_tradeoff_model_predictors(): None unless the file loads and holds tradeoffModel
get_tradeoff_model_predictors(file) ==
    IF file = "ok" THEN Some(ARC_HBR_MODEL_JSON.tradeoffModel)
    ELSE None

HRScale == 10 * 1000

\* score *= ratio, to the nearest 1/HRScale
Multiply(score, ratio) == (score * ratio + 50) \div 100

\* 1.0 with the ratios multiplied in, in order
RECURSIVE Product(_)
Product(ratios) ==
    IF ratios = <<>> THEN HRScale
    ELSE Multiply(Product(SubSeq(ratios, 1, Len(ratios) - 1)), ratios[Len(ratios)])

\* event_probability_percent = (1 - exp(-(-log(1 - rate/100) * HR))) * 100 in units of
\* 1/10000 percent, tabulated from the formula for the hazard ratios and the rates of
\* the model: exp and log are real functions.
EventProbabilityPercent(total_hr_score, baseline_event_rate) ==
    LET row ==
            CASE baseline_event_rate = 0 ->
                     (10000 :> 0) @@ (14700 :> 0) @@ (20000 :> 0) @@ (30000 :> 0) @@
                     (10000000 :> 0)
              [] baseline_event_rate = 25 ->
                     (10000 :> 25000) @@ (12700 :> 31642) @@ (13000 :> 32377) @@
                     (13900 :> 34579) @@ (14300 :> 35556) @@ (14700 :> 36533) @@
                     (14800 :> 36777) @@ (15000 :> 37264) @@ (15600 :> 38725) @@
                     (16510 :> 40938) @@ (16900 :> 41884) @@ (18796 :> 46472) @@
                     (19240 :> 47544) @@ (19500 :> 48170) @@ (19812 :> 48922) @@
                     (19877 :> 49078) @@ (20000 :> 49375) @@ (20280 :> 50048) @@
                     (20433 :> 50416) @@ (20850 :> 51418) @@ (21021 :> 51829) @@
                     (21450 :> 52858) @@ (21463 :> 52889) @@ (22050 :> 54296) @@
                     (22200 :> 54655) @@ (23088 :> 56778) @@ (23400 :> 57522) @@
                     (23491 :> 57740) @@ (24167 :> 59351) @@ (24435 :> 59989) @@
                     (24843 :> 60959) @@ (25012 :> 61361) @@ (25350 :> 62164) @@
                     (25756 :> 63127) @@ (26364 :> 64568) @@ (28860 :> 70461) @@
                     (29816 :> 72708) @@ (30000 :> 73140) @@ (30420 :> 74125) @@
                     (30650 :> 74664) @@ (31532 :> 76728) @@ (31765 :> 77273) @@
                     (33482 :> 81275) @@ (33592 :> 81531) @@ (35237 :> 85348) @@
                     (35525 :> 86015) @@ (36251 :> 87693) @@ (37265 :> 90032) @@
                     (37518 :> 90615) @@ (39546 :> 95272) @@ (39900 :> 96083) @@
                     (50389 :> 119771) @@ (53289 :> 126210) @@ (53944 :> 127658) @@
                     (55461 :> 131002) @@ (57057 :> 134506) @@ (58653 :> 137997) @@
                     (59850 :> 140605) @@ (77140 :> 177413) @@ (79309 :> 181918) @@
                     (80914 :> 185235) @@ (83192 :> 189921) @@ (83874 :> 191318) @@
                     (85586 :> 194816) @@ (87980 :> 199681) @@ (91164 :> 206107) @@
                     (115710 :> 253942) @@ (118965 :> 260065) @@ (125811 :> 272779) @@
                     (130362 :> 281110) @@ (136748 :> 292640) @@ (182264 :> 369632) @@
                     (195548 :> 390480) @@ (215234 :> 420114) @@ (231481 :> 443483) @@
                     (236943 :> 451126) @@ (273394 :> 499513) @@ (300925 :> 533210) @@
                     (307784 :> 541246) @@ (308026 :> 541527) @@ (322852 :> 558417) @@
                     (355417 :> 593364) @@ (391192 :> 628576) @@ (461678 :> 689281) @@
                     (462042 :> 689567) @@ (10000000 :> 999999)
              [] baseline_event_rate = 500 ->
                     (10000 :> 500000) @@ (14700 :> 639017) @@ (20000 :> 750000) @@
                     (30000 :> 875000) @@ (10000000 :> 1000000)
              [] baseline_event_rate = 999 ->
                     (10000 :> 999000) @@ (14700 :> 999961) @@ (20000 :> 999999) @@
                     (30000 :> 999999) @@ (10000000 :> 1000000)
    IN  row[total_hr_score]

\* round(x, 2) of x in 1/10000 percent, in hundredths of a percent
RoundToHundredths(x) == IF x % 100 >= 50 THEN x \div 100 + 1 ELSE x \div 100

\* the conversion if the probability scaled linearly with the hazard ratio
convert_hr_to_probability_linear(total_hr_score, baseline_event_rate) ==
    (baseline_event_rate * (total_hr_score \div 100)) \div 10

convert_hr_to_probability(total_hr_score, baseline_event_rate) ==
    IF baseline_event_rate >= 1000 THEN 100 * 100
    ELSE RoundToHundredths(min(EventProbabilityPercent(total_hr_score,
                                                       baseline_event_rate),
                               100 * 10000))

DEFAULT_BASELINE_RATE == 25

\* a factor key counts as active as soon as the dict holds it
IsPresent(active_factors, factor_key) == factor_key \in DOMAIN active_factors

\* active_factors.get(factor_key, False)
IsActive(active_factors, factor_key) == Get(active_factors, factor_key, FALSE)

Returned(value) == [raised |-> None, value |-> Some(value)]
Raised(exception) == [raised |-> Some(exception), value |-> None]

TradeoffError(message) ==
    [error |-> Some(message), bleeding_score |-> 0, thrombotic_score |-> 0,
     bleeding_factors |-> <<>>, thrombotic_factors |-> <<>>]

\* the add_score calls of calculate_tradeoff_scores, in order, as
\* <<event_type, factor, ratio>>
TradeoffAdditions(raw_data, demographics, tradeoff_data) ==
    LET hb_obs == Get(raw_data, "HEMOGLOBIN", <<>>)
        hb_val == IF hb_obs # <<>>
                  THEN get_value_from_observation(First(hb_obs), TARGET_UNITS.HEMOGLOBIN)
                  ELSE None
        egfr_obs == Get(raw_data, "EGFR", <<>>)
        egfr_val == IF egfr_obs # <<>>
                    THEN get_value_from_observation(First(egfr_obs), TARGET_UNITS.EGFR)
                    ELSE None
        When(cond, adds) == IF cond THEN adds ELSE <<>>
    IN  When(Val(demographics.age) >= 65, <<<<"bleeding", "Age >= 65", 150>>>>)
        \o (IF Truthy(hb_val) /\ 11 * ValueScale <= Val(hb_val)
               /\ Val(hb_val) < 13 * ValueScale
            THEN <<<<"bleeding", "Hb 11-12.9", 169>>, <<"thrombotic", "Hb 11-12.9", 127>>>>
            ELSE IF Truthy(hb_val) /\ Val(hb_val) < 11 * ValueScale
            THEN <<<<"bleeding", "Hb < 11", 399>>, <<"thrombotic", "Hb < 11", 150>>>>
            ELSE <<>>)
        \o (IF Truthy(egfr_val) /\ 30 * ValueScale <= Val(egfr_val)
               /\ Val(egfr_val) < 60 * ValueScale
            THEN <<<<"thrombotic", "eGFR 30-59", 130>>>>
            ELSE IF Truthy(egfr_val) /\ Val(egfr_val) < 30 * ValueScale
            THEN <<<<"bleeding", "eGFR < 30", 143>>, <<"thrombotic", "eGFR < 30", 169>>>>
            ELSE <<>>)
        \o When("diabetes" \in tradeoff_data, <<<<"thrombotic", "Diabetes", 156>>>>)
        \o When("prior_mi" \in tradeoff_data, <<<<"thrombotic", "Prior MI", 189>>>>)
        \o When("smoker" \in tradeoff_data,
                <<<<"bleeding", "Smoker", 147>>, <<"thrombotic", "Smoker", 148>>>>)
        \o When("nstemi_stemi" \in tradeoff_data, <<<<"thrombotic", "NSTEMI/STEMI", 182>>>>)
        \o When("complex_pci" \in tradeoff_data,
                <<<<"bleeding", "Complex PCI", 132>>, <<"thrombotic", "Complex PCI", 150>>>>)
        \o When("bms_used" \in tradeoff_data, <<<<"thrombotic", "BMS Used", 153>>>>)
        \o When("copd" \in tradeoff_data, <<<<"bleeding", "COPD", 139>>>>)
        \o When("oac_discharge" \in tradeoff_data,
                <<<<"bleeding", "OAC at Discharge", 200>>>>)

OfEvent(additions, event_type) == SelectSeq(additions, LAMBDA a : a[1] = event_type)
Ratios(additions) == [i \in 1..Len(additions) |-> additions[i][3]]
Factors(additions) == [i \in 1..Len(additions) |-> <<additions[i][2], additions[i][3]>>]

\* what calculate_tradeoff_scores returns when the model file cannot be used
ModelFileFailure(file) ==
    CASE file = "missing" -> TradeoffError("ARC-HBR model file not found on server.")
      [] file = "invalid" -> TradeoffError("Invalid JSON in model file.")
      [] file = "no_key" -> TradeoffError("Invalid model file structure.")

\* calculate_tradeoff_scores(raw_data, demographics, tradeoff_data); tradeoff_data is
\* the set of its keys that are true.  demographics.get('age', 0) >= 65 raises
\* TypeError when the age is None.
calculate_tradeoff_scores(file, config, raw_data, demographics, tradeoff_data) ==
    IF file # "ok" THEN Returned(ModelFileFailure(file))
    ELSE IF IsNone(demographics.age) THEN Raised("TypeError")
    ELSE LET additions == TradeoffAdditions(raw_data, demographics, tradeoff_data)
             tradeoff_config == Get(config, "tradeoff_analysis", EmptyDict)
             baseline_rates == Get(tradeoff_config, "baseline_event_rates", EmptyDict)
             BASELINE_BLEEDING_RATE ==
                 Get(baseline_rates, "bleeding_rate_percent", DEFAULT_BASELINE_RATE)
             BASELINE_THROMBOTIC_RATE ==
                 Get(baseline_rates, "thrombotic_rate_percent", DEFAULT_BASELINE_RATE)
         IN  Returned(
                 [error |-> None,
                  bleeding_score |->
                      convert_hr_to_probability(
                          Product(Ratios(OfEvent(additions, "bleeding"))),
                          BASELINE_BLEEDING_RATE),
                  thrombotic_score |->
                      convert_hr_to_probability(
                          Product(Ratios(OfEvent(additions, "thrombotic"))),
                          BASELINE_THROMBOTIC_RATE),
                  bleeding_factors |-> Factors(OfEvent(additions, "bleeding")),
                  thrombotic_factors |-> Factors(OfEvent(additions, "thrombotic"))])

\* calculate_tradeoff_scores_interactive(model_predictors, active_factors);
\* model_predictors is None or Some(model), and subscripting None raises TypeError.  The
\* result record also carries the two aggregate hazard ratios, which are locals.
calculate_tradeoff_scores_interactive(config, model_predictors, active_factors) ==
    IF IsNone(model_predictors) THEN Raised("TypeError")
    ELSE LET tradeoff_config == Get(config, "tradeoff_analysis", EmptyDict)
             baseline_rates == Get(tradeoff_config, "baseline_event_rates", EmptyDict)
             BASELINE_BLEEDING_RATE ==
                 Get(baseline_rates, "bleeding_rate_percent", DEFAULT_BASELINE_RATE)
             BASELINE_THROMBOTIC_RATE ==
                 Get(baseline_rates, "thrombotic_rate_percent", DEFAULT_BASELINE_RATE)
             Multiplied(predictors) ==
                 SelectSeq(predictors, LAMBDA predictor :
                                           IsActive(active_factors, predictor.factor))
             HazardRatios(predictors) ==
                 [i \in 1..Len(predictors) |-> predictors[i].hazardRatio]
             Details(predictors) ==
                 [i \in 1..Len(predictors) |->
                      <<predictors[i].description, predictors[i].hazardRatio>>]
             bleeding == Multiplied(Val(model_predictors).bleedingEvents.predictors)
             thrombotic == Multiplied(Val(model_predictors).thromboticEvents.predictors)
             bleeding_score_hr == Product(HazardRatios(bleeding))
             thrombotic_score_hr == Product(HazardRatios(thrombotic))
         IN  Returned(
                 [bleeding_score |->
                      convert_hr_to_probability(bleeding_score_hr, BASELINE_BLEEDING_RATE),
                  thrombotic_score |->
                      convert_hr_to_probability(thrombotic_score_hr,
                                                BASELINE_THROMBOTIC_RATE),
                  bleeding_factors |-> Details(bleeding),
                  thrombotic_factors |-> Details(thrombotic),
                  bleeding_score_hr |-> bleeding_score_hr,
                  thrombotic_score_hr |-> thrombotic_score_hr])

\* detect_tradeoff_factors(raw_data, demographics, tradeoff_data): the keys of the dict
\* returned (every value is True).  demographics always holds the key 'age', so
\* demographics.get('age', 0) is None for an undefined age and the comparison with the
\* threshold raises TypeError.
detect_tradeoff_factors(config, raw_data, demographics, tradeoff_data) ==
    LET tradeoff_config == Get(config, "tradeoff_analysis", EmptyDict)
        thresholds == Get(tradeoff_config, "risk_factor_thresholds", EmptyDict)
        age_threshold == Get(thresholds, "age_threshold", 65)
        hb_obs == Get(raw_data, "HEMOGLOBIN", <<>>)
        hb_val == IF hb_obs # <<>>
                  THEN get_value_from_observation(First(hb_obs), TARGET_UNITS.HEMOGLOBIN)
                  ELSE None
        hb_ranges == Get(thresholds, "hemoglobin_ranges", EmptyDict)
        hb_moderate == Get(hb_ranges, "moderate",
                           [min |-> 11 * ValueScale, max |-> 13 * ValueScale])
        hb_severe == Get(hb_ranges, "severe", [max |-> 11 * ValueScale])
        egfr_obs == Get(raw_data, "EGFR", <<>>)
        cr_obs == Get(raw_data, "CREATININE", <<>>)
        cr_val == IF cr_obs # <<>>
                  THEN get_value_from_observation(First(cr_obs), TARGET_UNITS.CREATININE)
                  ELSE None
        egfr_val ==
            IF egfr_obs # <<>>
            THEN get_value_from_observation(First(egfr_obs), TARGET_UNITS.EGFR)
            ELSE IF cr_obs # <<>> /\ Truthy(cr_val) /\ Truthy(demographics.age)
                    /\ ~IsNone(demographics.gender) /\ Val(demographics.gender) # ""
            THEN calculate_egfr(Val(cr_val), demographics.age, demographics.gender)
            ELSE None
        egfr_ranges == Get(thresholds, "egfr_ranges", EmptyDict)
        egfr_moderate == Get(egfr_ranges, "moderate",
                             [min |-> 30 * ValueScale, max |-> 60 * ValueScale])
        egfr_severe == Get(egfr_ranges, "severe", [max |-> 30 * ValueScale])
        When(cond, keys) == IF cond THEN keys ELSE {}
    IN  IF IsNone(demographics.age) THEN Raised("TypeError")
        ELSE Returned(
                 When(Val(demographics.age) >= age_threshold, {"age_ge_65"})
                 \cup (IF Truthy(hb_val) /\ hb_moderate.min <= Val(hb_val)
                          /\ Val(hb_val) < hb_moderate.max
                       THEN {"hemoglobin_11_12.9"}
                       ELSE IF Truthy(hb_val) /\ Val(hb_val) < hb_severe.max
                       THEN {"hemoglobin_lt_11"}
                       ELSE {})
                 \cup (IF Truthy(egfr_val) /\ egfr_moderate.min <= Val(egfr_val)
                          /\ Val(egfr_val) < egfr_moderate.max
                       THEN {"egfr_30_59"}
                       ELSE IF Truthy(egfr_val) /\ Val(egfr_val) < egfr_severe.max
                       THEN {"egfr_lt_30"}
                       ELSE {})
                 \cup When("diabetes" \in tradeoff_data, {"diabetes"})
                 \cup When("prior_mi" \in tradeoff_data, {"prior_mi"})
                 \cup When("smoker" \in tradeoff_data, {"smoker"})
                 \cup When("nstemi_stemi" \in tradeoff_data, {"nstemi_stemi"})
                 \cup When("complex_pci" \in tradeoff_data, {"complex_pci"})
                 \cup When("bms_used" \in tradeoff_data, {"bms"})
                 \cup When("copd" \in tradeoff_data, {"copd"})
                 \cup When("oac_discharge" \in tradeoff_data, {"oac_discharge"}))

(***************************************************************************)
(* APP.py and views.py: the session and the decorators of the protected    *)
(* routes.  The Flask session is the signed cookie that travels with every *)
(* request and comes back with the response; it is a dict with the keys    *)
(* launch_params, fhir_data and patient_id.  A string value is None or     *)
(* Some(string).                                                           *)
(***************************************************************************)
\* a value that is neither None nor the empty string
Filled(x) == ~IsNone(x) /\ Val(x) # ""

CLIENT_ID == Some("precise-hbr-app")

REQUIRED_KEYS == {"server", "token", "client_id"}

\* APP.is_session_valid
is_session_valid(session) ==
    LET fhir_data == Get(session, "fhir_data", EmptyDict)
    IN  DOMAIN fhir_data # {} /\ REQUIRED_KEYS \subseteq DOMAIN fhir_data

\* APP.login_required around a handler of `path`: whether the handler runs, and the
\* status of the refusal
login_required(session, path) ==
    IF ~is_session_valid(session)
    THEN IF path \in {"/api/calculate_risk"}
         THEN [ran |-> FALSE, status |-> 401]
         ELSE [ran |-> FALSE, status |-> 302]
    ELSE [ran |-> TRUE, status |-> 200]

\* views.is_token_expired; expires_in is None or Some(seconds)
is_token_expired(token_data) ==
    IF DOMAIN token_data = {} THEN TRUE
    ELSE LET expires_in == Get(token_data, "expires_in", None)
         IN  IF ~Truthy(expires_in) THEN FALSE ELSE Val(expires_in) <= 300

\* views.session_required around a handler
session_required(session) ==
    LET fhir_data == Get(session, "fhir_data", EmptyDict)
        missing_keys == {key \in {"patient"} \cup REQUIRED_KEYS :
                             key \notin DOMAIN fhir_data \/ ~Filled(fhir_data[key])}
    IN  IF missing_keys # {} THEN [ran |-> FALSE, status |-> 302]
        ELSE IF is_token_expired(fhir_data) THEN [ran |-> FALSE, status |-> 302]
        ELSE [ran |-> TRUE, status |-> 200]

\* APP.launch: `endpoints` tells whether the authorization and token endpoints of the
\* server were found
launch(session, iss, endpoints) ==
    IF ~Filled(iss) \/ ~endpoints THEN [session |-> session, status |-> 500]
    ELSE [session |-> ("launch_params" :> [iss |-> iss, token_url |-> Some("token_url"),
                                          code_verifier |-> Some("code_verifier")])
                      @@ session,
          status |-> 302]

\* APP.exchange_code: token_endpoint is "HTTPError" or Some(the JSON of a 200 answer)
exchange_code(session, code, token_endpoint) ==
    LET launch_params == Get(session, "launch_params", EmptyDict)
    IN  IF ~Filled(code) THEN [session |-> session, status |-> 400]
        ELSE IF DOMAIN launch_params = {} THEN [session |-> session, status |-> 400]
        ELSE IF token_endpoint = "HTTPError" THEN [session |-> session, status |-> 400]
        ELSE LET token_response == Val(token_endpoint)
                 fhir_data == [token |-> Get(token_response, "access_token", None),
                               patient |-> Get(token_response, "patient", None),
                               server |-> Get(launch_params, "iss", None),
                               client_id |-> CLIENT_ID,
                               expires_in |-> Get(token_response, "expires_in", None)]
                 stored == ("fhir_data" :> fhir_data) @@ session
             IN  [session |-> IF "patient" \in DOMAIN token_response
                              THEN ("patient_id" :> token_response.patient) @@ stored
                              ELSE stored,
                  status |-> 200]

\* views.test_mode
test_mode(session, production, server, patient_id) ==
    IF production THEN [session |-> session, status |-> 403]
    ELSE [session |-> ("fhir_data" :> [token |-> Some("test-mode-no-auth"),
                                       patient |-> patient_id,
                                       server |-> server,
                                       client_id |-> Some("test-mode"),
                                       expires_in |-> Some(3600)])
                      @@ ("patient_id" :> patient_id) @@ session,
          status |-> 302]

\* session.clear() of both logout routes
logout(session) == [session |-> EmptyDict, status |-> 302]

(***************************************************************************)
(* Inputs                                                                  *)
(***************************************************************************)
Obs(value, unit) ==
    [valueQuantity |-> Some([value |-> Some(value), unit |-> unit]),
     effectiveDateTime |-> None]
ObsWithoutQuantity == [valueQuantity |-> None, effectiveDateTime |-> None]

Ages == {None, Some(25), Some(50), Some(80), Some(95)}
Genders == {None, Some("male"), Some("female"), Some("other")}
DemographicsSet == [age : Ages, gender : Genders]

HemoglobinLists ==
    {<<>>, <<Obs(30, "g/dL")>>, <<Obs(50, "g/dl")>>, <<Obs(110, "g/dL")>>,
     <<Obs(1500, "g/L")>>, <<Obs(0, "g/dL")>>, <<Obs(110, "foo")>>,
     <<ObsWithoutQuantity>>}
EgfrLists ==
    {<<>>, <<Obs(680, "mL/min/1.73m2")>>, <<Obs(500, "foo")>>, <<Obs(1200, "")>>}
CreatinineLists == {<<>>, <<Obs(10, "mg/dL")>>, <<Obs(1770, "umol/L")>>}
WbcLists == {<<>>, <<Obs(50, "10*9/L")>>, <<Obs(200, "K/uL")>>}
PlateletLists == {<<>>, <<Obs(500, "10*9/L")>>, <<Obs(1500, "")>>}

\* the observations handed to the unit conversion alone
UnitValues == {None, Some(0), Some(1500), Str("12.5")}
UnitStrings ==
    {"", " ", "g/dL", "g/dl", "g/L", "mmol/L", "mg/dL", "umol/L", "10*9/L", "K/uL",
     "/uL", "mL/min/1.73m2", "mL/min", "foo"}
UnitObservations ==
    {ObsWithoutQuantity}
    \cup {[valueQuantity |-> Some([value |-> value, unit |-> unit]),
           effectiveDateTime |-> None] : value \in UnitValues, unit \in UnitStrings}

ACTIVE == <<[system |-> CONDITION_CLINICAL, code |-> "active"]>>
RESOLVED == <<[system |-> CONDITION_CLINICAL, code |-> "resolved"]>>
Coding(code, display) == [system |-> SNOMED, code |-> code, display |-> display]
Condition(codings, text, status) ==
    [code |-> [coding |-> codings, text |-> text], clinicalStatus |-> status]

GIBleeding == Condition(<<>>, <<"GI", "Bleeding">>, ACTIVE)
ActiveCancer == Condition(<<Coding("363346000", <<"Malignant", "disease">>)>>, <<>>, ACTIVE)
ResolvedCancer == Condition(<<>>, <<"Lung", "Cancer">>, RESOLVED)
Cirrhosis == Condition(<<Coding("19943007", <<"Cirrhosis">>)>>, <<>>, ACTIVE)
Ascites == Condition(<<>>, <<"Ascites">>, ACTIVE)
Hemophilia == Condition(<<Coding("64779008", <<"hemophilia">>)>>,
                        <<>>, ACTIVE)
Med(tokens) == [medicationCodeableConcept |-> tokens]

\* the conditions handed to the cancer check alone: by code and by text, active, resolved
\* and without a clinical status, and the excluded skin cancers
CancerConditions ==
    {ActiveCancer, ResolvedCancer, GIBleeding,
     Condition(<<Coding("363346000", <<>>)>>, <<>>, RESOLVED),
     Condition(<<Coding("363346000", <<>>)>>, <<>>, <<>>),
     Condition(<<>>, <<"Lung", "Cancer">>, ACTIVE),
     Condition(<<Coding("254637007", <<"basal cell", "carcinoma">>)>>, <<>>, ACTIVE),
     Condition(<<Coding("254637007", <<>>), Coding("363346000", <<>>)>>, <<>>, ACTIVE),
     Condition(<<>>, <<"skin cancer", "cancer">>, ACTIVE)}

\* the conditions handed to the liver check alone: each kind of evidence by code and by
\* text, both kinds in one record, and neither
LiverConditions ==
    {Cirrhosis, Ascites, GIBleeding,
     Condition(<<>>, <<"cirrhosis">>, RESOLVED),
     Condition(<<Coding("34742003", <<>>)>>, <<>>, ACTIVE),
     Condition(<<Coding("19943007", <<>>)>>, <<"esophageal varices">>, ACTIVE)}

MaxConditions == 2
ConditionLists(pool) == UNION {[1..n -> pool] : n \in 0..MaxConditions}

\* the conditions and medications of a bundle
CategoricalInputs ==
    {[conditions |-> <<>>, med_requests |-> <<>>],
     [conditions |-> <<GIBleeding>>, med_requests |-> <<>>],
     [conditions |-> <<>>, med_requests |-> <<Med(<<"Warfarin">>)>>],
     [conditions |-> <<ActiveCancer>>, med_requests |-> <<Med(<<"Ibuprofen">>)>>],
     [conditions |-> <<ResolvedCancer, Cirrhosis>>, med_requests |-> <<>>],
     [conditions |-> <<Ascites, Cirrhosis, GIBleeding>>,
      med_requests |-> <<Med(<<"Ibuprofen">>), Med(<<"Warfarin">>)>>],
     [conditions |-> <<Hemophilia, ActiveCancer, Cirrhosis, Ascites>>,
      med_requests |-> <<Med(<<"Ibuprofen">>)>>]}

\* the lab results of a bundle that holds no condition and no medication
LabInputs ==
    [HEMOGLOBIN : HemoglobinLists, EGFR : EgfrLists, CREATININE : CreatinineLists,
     WBC : WbcLists, PLATELETS : {<<>>}]
NoCategorical == [conditions |-> <<>>, med_requests |-> <<>>]

\* the lab results of a bundle that holds conditions and medications
CategoricalLabInputs ==
    [HEMOGLOBIN : {<<>>, <<Obs(110, "g/dL")>>},
     EGFR : {<<>>, <<Obs(680, "mL/min/1.73m2")>>}, CREATININE : {<<>>},
     WBC : {<<>>, <<Obs(50, "10*9/L")>>}, PLATELETS : PlateletLists]

\* platelet counts around the threshold, and a WBC count of zero
PlateletEdgeLists ==
    {<<Obs(0, "10*9/L")>>, <<Obs(999, "10*9/L")>>, <<Obs(1000, "10*9/L")>>,
     <<Obs(500000, "/uL")>>, <<Obs(500, "foo")>>, <<ObsWithoutQuantity>>}
EdgeLabInputs ==
    [HEMOGLOBIN : {<<>>}, EGFR : {<<>>}, CREATININE : {<<>>},
     WBC : {<<>>, <<Obs(0, "10*9/L")>>}, PLATELETS : PlateletEdgeLists]

\* an eGFR of 20 under oral anticoagulation: with an age of 80 or more the unrounded
\* total is 2 + 12.5 + 4 + 5 = 23.5
TieInputs ==
    [HEMOGLOBIN |-> <<>>, EGFR |-> <<Obs(200, "mL/min/1.73m2")>>, CREATININE |-> <<>>,
     WBC |-> <<>>, PLATELETS |-> <<>>, conditions |-> <<>>,
     med_requests |-> <<Med(<<"Warfarin">>)>>]

Bundles ==
    {labs @@ NoCategorical : labs \in LabInputs}
    \cup {labs @@ categorical : labs \in CategoricalLabInputs,
                                categorical \in CategoricalInputs}
    \cup {labs @@ NoCategorical : labs \in EdgeLabInputs}
    \cup {TieInputs}

ConfigFileStates == {"ok", "missing", "invalid"}

\* what the browser sends and what the token endpoint answers
IssValues == {None, Some("https://ehr.example/fhir")}
CodeValues == {None, Some("code")}
TokenEndpointAnswers ==
    {"HTTPError",
     Some([access_token |-> Some("token"), patient |-> Some("p1"),
           expires_in |-> Some(3600)]),
     Some([access_token |-> Some("token"), patient |-> Some("p1"),
           expires_in |-> Some(120)]),
     Some([access_token |-> Some("token")]),
     Some([patient |-> Some("p1")])}
TestServers == {Some("http://10.29.99.18:9091/fhir"), Some("http://localhost:8080/fhir")}
ProtectedPaths == {"/main", "/api/calculate_risk"}

\* what the server holds for a lab parameter: an older, a newer and an undated result
OLDER == <<2023, 5, 1>>
NEWER == <<2024, 1, 1>>
Dated(obs, date) == [obs EXCEPT !.effectiveDateTime = Some(date)]
ServerObservations ==
    [EGFR |-> [older |-> Dated(Obs(500, "mL/min/1.73m2"), OLDER),
               newer |-> Dated(Obs(680, "mL/min/1.73m2"), NEWER),
               undated |-> Obs(1200, "")],
     CREATININE |-> [older |-> Dated(Obs(10, "mg/dL"), OLDER),
                     newer |-> Dated(Obs(1770, "umol/L"), NEWER),
                     undated |-> Obs(10, "mg/dL")],
     HEMOGLOBIN |-> [older |-> Dated(Obs(110, "g/dL"), OLDER),
                     newer |-> Dated(Obs(50, "g/dl"), NEWER),
                     undated |-> Obs(1500, "g/L")],
     WBC |-> [older |-> Dated(Obs(50, "10*9/L"), OLDER),
              newer |-> Dated(Obs(200, "K/uL"), NEWER),
              undated |-> Obs(50, "10*9/L")],
     PLATELETS |-> [older |-> Dated(Obs(500, "10*9/L"), OLDER),
                    newer |-> Dated(Obs(1500, ""), NEWER),
                    undated |-> Obs(500, "10*9/L")]]

Entry(resource) == [resource |-> Some(resource)]
EntryWithoutResource == [resource |-> None]
SearchRaises == [raises |-> TRUE, entry |-> <<>>]
Bundle(entry) == [raises |-> FALSE, entry |-> entry]

\* what the server may do with an Observation search for a lab parameter; hemoglobin,
\* the parameter with two text terms, gets the widest choice
Responses(resource_type) ==
    LET held == ServerObservations[resource_type]
    IN  IF resource_type = "HEMOGLOBIN"
        THEN {SearchRaises,
              Bundle(<<>>),
              Bundle(<<EntryWithoutResource>>),
              Bundle(<<Entry(held.older), Entry(held.newer)>>),
              Bundle(<<Entry(held.undated), EntryWithoutResource, Entry(held.older)>>)}
        ELSE {SearchRaises,
              Bundle(<<>>),
              Bundle(<<EntryWithoutResource, Entry(held.older), Entry(held.newer)>>)}

\* effective dates of other shapes: a date before the default of the sort key, and two
\* times of day with their zone offsets, <<year, month, day, hour, sign, offset hours>>
\* for 'YYYY-MM-DDThh:00:00+hh:00' with the sign as its character code, 43 for '+' and
\* 45 for '-'
BEFORE_1900 == <<1899, 12, 31>>
LATE_EVENING_WEST == <<2024, 6, 1, 23, 45, 5>>
EARLY_MORNING_UTC == <<2024, 6, 2, 1, 43, 0>>

\* the hemoglobin results a single search may return, and its responses of up to
\* MaxEntries entries
HeldHemoglobin ==
    {Obs(1500, "g/L"),
     Dated(Obs(110, "g/dL"), OLDER),
     Dated(Obs(50, "g/dl"), NEWER),
     Dated(Obs(30, "g/dL"), NEWER),
     Dated(Obs(90, "g/dL"), BEFORE_1900),
     Dated(Obs(100, "g/dL"), LATE_EVENING_WEST),
     Dated(Obs(120, "g/dL"), EARLY_MORNING_UTC)}
MaxEntries == 3
SearchResponses ==
    {SearchRaises}
    \cup UNION {{Bundle(entry) :
                    entry \in [1..n -> {EntryWithoutResource}
                                       \cup {Entry(obs) : obs \in HeldHemoglobin}]} :
                n \in 0..MaxEntries}

\* what the server may do with the Condition search
ConditionResponses ==
    {SearchRaises, Bundle(<<>>), Bundle(<<Entry(GIBleeding), EntryWithoutResource>>)}

PatientResource(gender, birthDate) ==
    [resourceType |-> "Patient", gender |-> gender, birthDate |-> birthDate]
Patients ==
    {PatientResource(Some("male"), Some(<<1976, 6, 15>>)),
     PatientResource(Some("female"), Some(<<1946>>))}

\* how the patient read may end: setup_fhir_client raises, the read raises, or a resource
PatientOutcomes ==
    {[raises |-> Some("setup"), resource |-> None],
     [raises |-> Some("read"), resource |-> None]}
    \cup {[raises |-> None, resource |-> Some(p)] : p \in Patients}

Todays == {<<2026, 6, 14>>, <<2026, 6, 15>>}

MaxScore == 60
ScoreRange == 0..MaxScore

ModelFileStates == {"ok", "missing", "invalid", "no_key"}
TradeoffHemoglobinLists ==
    {<<>>, <<Obs(110, "g/dL")>>, <<Obs(50, "g/dl")>>, <<Obs(1500, "g/L")>>,
     <<Obs(0, "g/dL")>>}
TradeoffEgfrLists ==
    {<<>>, <<Obs(680, "mL/min/1.73m2")>>, <<Obs(500, "mL/min/1.73m2")>>,
     <<Obs(500, "foo")>>}
TradeoffBundles == [HEMOGLOBIN : TradeoffHemoglobinLists, EGFR : TradeoffEgfrLists]
\* bundles for the factor detection, which also reads the creatinine list
FactorBundles ==
    [HEMOGLOBIN : TradeoffHemoglobinLists, EGFR : TradeoffEgfrLists,
     CREATININE : CreatinineLists]
TradeoffDataSets ==
    {{}, {"smoker"}, {"diabetes", "copd"},
     {"diabetes", "prior_mi", "smoker", "nstemi_stemi", "complex_pci", "bms_used",
      "copd", "oac_discharge"}}

\* active_factors dicts: keys that are true, false, absent, and a key of no predictor
ActiveFactorSets ==
    {EmptyDict,
     [smoker |-> TRUE],
     [smoker |-> FALSE, copd |-> TRUE],
     [diabetes |-> TRUE, smoker |-> TRUE, bms |-> TRUE],
     [age_ge_65 |-> TRUE, smoker |-> TRUE, copd |-> TRUE, diabetes |-> FALSE],
     [age_ge_65 |-> FALSE, smoker |-> FALSE, bms |-> TRUE]}

\* the arguments of direct calls of convert_hr_to_probability
HazardRatioInputs == {HRScale, 14700, 2 * HRScale, 3 * HRScale, 1000 * HRScale}
BaselineRateInputs == {0, 25, 500, 999, 1000, 1200}

(***************************************************************************)
(* services/cdss_config_loader.py: the lab search configuration            *)
(***************************************************************************)
\* the order in which get_loinc_codes builds its dict, which is the order of .items()
RESOURCE_TYPES == <<"EGFR", "CREATININE", "HEMOGLOBIN", "WBC", "PLATELETS">>

get_loinc_codes(config) ==
    IF DOMAIN config = {} THEN EmptyDict
    ELSE LET lab_config == Get(config, "laboratory_value_extraction", EmptyDict)
         IN  [EGFR |-> Get(lab_config, "egfr_loinc_codes", <<>>),
              CREATININE |-> Get(lab_config, "creatinine_loinc_codes", <<>>),
              HEMOGLOBIN |-> Get(lab_config, "hemoglobin_loinc_codes", <<>>),
              WBC |-> Get(lab_config, "white_blood_cell_loinc_codes", <<>>),
              PLATELETS |-> Get(lab_config, "platelet_loinc_codes", <<>>)]

get_text_search_terms(config) ==
    IF DOMAIN config = {} THEN EmptyDict
    ELSE LET lab_config == Get(config, "laboratory_value_extraction", EmptyDict)
         IN  [EGFR |-> Get(lab_config, "egfr_text_search", <<>>),
              CREATININE |-> Get(lab_config, "creatinine_text_search", <<>>),
              HEMOGLOBIN |-> Get(lab_config, "hemoglobin_text_search", <<>>),
              WBC |-> Get(lab_config, "wbc_text_search", <<>>),
              PLATELETS |-> Get(lab_config, "platelet_text_search", <<>>)]

\* dict.items() of a dict keyed by resource type: <<key, value>> pairs in insertion order
Items(d) ==
    LET keys == SelectSeq(RESOURCE_TYPES, LAMBDA k : k \in DOMAIN d)
    IN  [i \in 1..Len(keys) |-> <<keys[i], d[keys[i]]>>]

(***************************************************************************)
(* services/fhir_client.py                                                 *)
(* A date string is the tuple of its zero-padded fields, compared field by *)
(* field as Python compares strings character by character.  A search      *)
(* response either raises or is a bundle with its `entry` list.            *)
(***************************************************************************)
DEFAULT_DATE == <<1900, 1, 1>>

\* a < b for two strings
RECURSIVE StrLess(_, _)
StrLess(a, b) ==
    IF a = <<>> THEN b # <<>>
    ELSE IF b = <<>> THEN FALSE
    ELSE IF Head(a) # Head(b) THEN Head(a) < Head(b)
    ELSE StrLess(Tail(a), Tail(b))

\* resource_json.get('effectiveDateTime')
\*     or resource_json.get('effectivePeriod', {}).get('start') or '1900-01-01'
DateStr(resource_json) ==
    LET effective == Get(resource_json, "effectiveDateTime", None)
        start == Get(Get(resource_json, "effectivePeriod", EmptyDict), "start", None)
    IN  IF ~IsNone(effective) /\ Val(effective) # <<>> THEN Val(effective)
        ELSE IF ~IsNone(start) /\ Val(start) # <<>> THEN Val(start)
        ELSE DEFAULT_DATE

\* one step of list.sort(key=lambda x: x[0], reverse=True): x goes behind every element
\* whose key is not smaller, so equal keys keep their order
RECURSIVE InsertDescending(_, _)
InsertDescending(x, sorted) ==
    IF sorted = <<>> THEN <<x>>
    ELSE IF StrLess(Head(sorted)[1], x[1]) THEN <<x>> \o sorted
    ELSE <<Head(sorted)>> \o InsertDescending(x, Tail(sorted))

RECURSIVE SortDescending(_)
SortDescending(list) ==
    IF list = <<>> THEN <<>>
    ELSE InsertDescending(list[Len(list)], SortDescending(SubSeq(list, 1, Len(list) - 1)))

\* the (date_str, resource_json) pairs of the entries that carry a resource, sorted
sorted_entries(entry) ==
    LET with_resource == SelectSeq(entry, LAMBDA e : ~IsNone(e.resource))
    IN  SortDescending([i \in 1..Len(with_resource) |->
                            <<DateStr(Val(with_resource[i].resource)),
                              Val(with_resource[i].resource)>>])

\* the body of the try block of both searches: the most recent resource of the response,
\* nothing when the search raises
MostRecentOf(response) ==
    IF response.raises THEN <<>>
    ELSE LET sorted == sorted_entries(response.entry)
         IN  IF sorted # <<>> THEN <<sorted[1][2]>> ELSE <<>>

\* fetch_observations_by_text without the break: every term is queried and every term's
\* most recent match is appended
RECURSIVE fetch_observations_by_text_all(_, _)
fetch_observations_by_text_all(text_terms, responses) ==
    IF text_terms = <<>> THEN [obs_list |-> <<>>, queried |-> <<>>]
    ELSE LET rest == fetch_observations_by_text_all(Tail(text_terms), Tail(responses))
         IN  [obs_list |-> MostRecentOf(Head(responses)) \o rest.obs_list,
              queried |-> <<Head(text_terms)>> \o rest.queried]

\* fetch_observations_by_loinc(patient_id, resource_type, codes, fhir_server): `response`
\* is what the server does with the query if it is issued
fetch_observations_by_loinc(codes, response) ==
    IF codes = <<>> THEN [obs_list |-> <<>>, queried |-> <<>>]
    ELSE [obs_list |-> MostRecentOf(response), queried |-> <<codes>>]

\* fetch_observations_by_text(patient_id, resource_type, text_terms, fhir_server):
\* responses[i] is what the server does with the query for text_terms[i] if it is issued;
\* queried lists the terms whose query was issued
RECURSIVE fetch_observations_by_text(_, _)
fetch_observations_by_text(text_terms, responses) ==
    IF text_terms = <<>> THEN [obs_list |-> <<>>, queried |-> <<>>]
    ELSE LET found == MostRecentOf(Head(responses))
         IN  IF found # <<>>
             THEN [obs_list |-> found, queried |-> <<Head(text_terms)>>]
             ELSE LET rest == fetch_observations_by_text(Tail(text_terms),
                                                         Tail(responses))
                  IN  [obs_list |-> rest.obs_list,
                       queried |-> <<Head(text_terms)>> \o rest.queried]

\* fetch_conditions with the except clause removed: the error reaches the caller
fetch_conditions_propagating(response) ==
    IF response.raises THEN Raised("Exception")
    ELSE LET with_resource == SelectSeq(response.entry, LAMBDA e : ~IsNone(e.resource))
         IN  Returned([i \in 1..Len(with_resource) |-> Val(with_resource[i].resource)])

\* fetch_conditions(patient_id, fhir_server)
fetch_conditions(response) ==
    IF response.raises THEN Returned(<<>>)
    ELSE LET with_resource == SelectSeq(response.entry, LAMBDA e : ~IsNone(e.resource))
         IN  Returned([i \in 1..Len(with_resource) |-> Val(with_resource[i].resource)])

(***************************************************************************)
(* services/fhir_utils.py: get_patient_demographics                        *)
(***************************************************************************)
\* the age get_patient_demographics computes; strptime("%Y-%m-%d") raises ValueError on
\* a birthDate that is not year-month-day, which leaves the age None
AgeOn(birthDate, today) ==
    IF Len(birthDate) # 3 THEN None
    ELSE Some(today[1] - birthDate[1]
              - (IF StrLess(<<today[2], today[3]>>, <<birthDate[2], birthDate[3]>>)
                 THEN 1 ELSE 0))

get_patient_demographics(patient_resource, today) ==
    IF DOMAIN patient_resource = {} THEN [gender |-> None, age |-> None]
    ELSE [gender |-> Get(patient_resource, "gender", None),
          age |-> LET birthDate == Get(patient_resource, "birthDate", None)
                  IN  IF ~IsNone(birthDate) /\ Val(birthDate) # <<>>
                      THEN AgeOn(Val(birthDate), today)
                      ELSE None]

(***************************************************************************)
(* The state machine                                                       *)
(***************************************************************************)
NoCall == [name |-> "none"]

Init ==
    /\ cdss_config_file = "unread"
    /\ _CDSS_CONFIG = None
    /\ file_reads = 0
    /\ pc = "import"
    /\ call = NoCall

\* cdss_config_loader.py line 83: the module loads the configuration when imported
ImportConfigLoader ==
    /\ pc = "import"
    /\ \E file \in ConfigFileStates :
           /\ cdss_config_file' = file
           /\ _CDSS_CONFIG' = load_cdss_config(_CDSS_CONFIG, file)
    /\ file_reads' = file_reads + 1
    /\ pc' = "idle"
    /\ UNCHANGED call

\* a call of calculate_precise_hbr_score(raw_data, demographics)
CallCalculatePreciseHbrScore ==
    /\ pc = "idle"
    /\ \E raw_data \in Bundles, demographics \in DemographicsSet :
           LET config == get_cdss_config(_CDSS_CONFIG, cdss_config_file)
           IN  /\ _CDSS_CONFIG' = config
               /\ call' = [name |-> "calculate_precise_hbr_score",
                           raw_data |-> raw_data,
                           demographics |-> demographics,
                           result |-> calculate_precise_hbr_score(Val(config), raw_data,
                                                                  demographics)]
    /\ pc' = "returned"
    /\ UNCHANGED <<cdss_config_file, file_reads>>

\* views.calculate_risk_api lines 96-98: the caller passes the score just returned to
\* get_precise_hbr_display_info
CallGetPreciseHbrDisplayInfo ==
    /\ pc = "returned"
    /\ call.name = "calculate_precise_hbr_score"
    /\ call' = [name |-> "get_precise_hbr_display_info",
                precise_hbr_score |-> call.result.final_score,
                scored |-> call,
                result |-> get_precise_hbr_display_info(call.result.final_score)]
    /\ pc' = "returned"
    /\ UNCHANGED <<cdss_config_file, _CDSS_CONFIG, file_reads>>

\* the caller takes the result
Return ==
    /\ pc = "returned"
    /\ pc' = "idle"
    /\ call' = NoCall
    /\ UNCHANGED <<cdss_config_file, _CDSS_CONFIG, file_reads>>

NextScoring ==
    \/ ImportConfigLoader
    \/ CallCalculatePreciseHbrScore
    \/ CallGetPreciseHbrDisplayInfo
    \/ Return

SpecScoring == Init /\ [][NextScoring]_vars

(***************************************************************************)
(* The risk curve and the category, called with a score                    *)
(***************************************************************************)
CallGetRiskCategoryInfo ==
    /\ pc = "idle"
    /\ \E precise_hbr_score \in ScoreRange :
           call' = [name |-> "get_risk_category_info",
                    precise_hbr_score |-> precise_hbr_score,
                    result |-> get_risk_category_info(precise_hbr_score)]
    /\ pc' = "returned"
    /\ UNCHANGED <<cdss_config_file, _CDSS_CONFIG, file_reads>>

CallCalculateBleedingRiskPercentage ==
    /\ pc = "idle"
    /\ \E precise_hbr_score \in ScoreRange :
           call' = [name |-> "calculate_bleeding_risk_percentage",
                    precise_hbr_score |-> precise_hbr_score,
                    result |-> calculate_bleeding_risk_percentage(precise_hbr_score)]
    /\ pc' = "returned"
    /\ UNCHANGED <<cdss_config_file, _CDSS_CONFIG, file_reads>>

NextRisk ==
    \/ ImportConfigLoader
    \/ CallGetRiskCategoryInfo
    \/ CallCalculateBleedingRiskPercentage
    \/ Return

SpecRisk == Init /\ [][NextRisk]_vars

(***************************************************************************)
(* get_cdss_config called by several threads at once, one line per step,   *)
(* while the file on disk may be replaced                                  *)
(***************************************************************************)
NumCallers == 2
Callers == 1..NumCallers

\* cdss_config.json is replaced, removed or damaged after the module was imported
ConfigFileChanges ==
    /\ pc \in {"idle", "concurrent"}
    /\ \E file \in ConfigFileStates \ {cdss_config_file} : cdss_config_file' = file
    /\ UNCHANGED <<_CDSS_CONFIG, file_reads, pc, call>>

\* the threads enter get_cdss_config
CallGetCdssConfig ==
    /\ pc = "idle"
    /\ call' = [name |-> "get_cdss_config",
                at |-> [c \in Callers |-> "line 40"],
                returned |-> [c \in Callers |-> None]]
    /\ pc' = "concurrent"
    /\ UNCHANGED <<cdss_config_file, _CDSS_CONFIG, file_reads>>

\* line 40, `if _CDSS_CONFIG is None: return load_cdss_config()`
GetCdssConfig_Line40(c) ==
    /\ pc = "concurrent"
    /\ call.at[c] = "line 40"
    /\ IF IsNone(_CDSS_CONFIG)
       THEN LET config == get_cdss_config(_CDSS_CONFIG, cdss_config_file)
            IN  /\ _CDSS_CONFIG' = config
                /\ file_reads' = file_reads + 1
                /\ call' = [call EXCEPT !.at[c] = "returned", !.returned[c] = config]
       ELSE /\ call' = [call EXCEPT !.at[c] = "line 42"]
            /\ UNCHANGED <<_CDSS_CONFIG, file_reads>>
    /\ UNCHANGED <<cdss_config_file, pc>>

\* line 42, `return _CDSS_CONFIG`; the last thread to return ends the call
GetCdssConfig_Line42(c) ==
    /\ pc = "concurrent"
    /\ call.at[c] = "line 42"
    /\ call' = [call EXCEPT !.at[c] = "returned",
                            !.returned[c] = get_cdss_config(_CDSS_CONFIG,
                                                            cdss_config_file)]
    /\ pc' = IF \A d \in Callers \ {c} : call.at[d] = "returned"
             THEN "returned" ELSE "concurrent"
    /\ UNCHANGED <<cdss_config_file, _CDSS_CONFIG, file_reads>>

(***************************************************************************)
(* The condition checks, called with a list of conditions                  *)
(***************************************************************************)
CallCheckActiveCancerUpdated ==
    /\ pc = "idle"
    /\ \E conditions \in ConditionLists(CancerConditions) :
           LET config == get_cdss_config(_CDSS_CONFIG, cdss_config_file)
           IN  /\ _CDSS_CONFIG' = config
               /\ call' = [name |-> "check_active_cancer_updated",
                           conditions |-> conditions,
                           result |-> check_active_cancer_updated(Val(config),
                                                                  conditions)]
    /\ pc' = "returned"
    /\ UNCHANGED <<cdss_config_file, file_reads>>

CallCheckLiverCirrhosisPortalHypertensionUpdated ==
    /\ pc = "idle"
    /\ \E conditions \in ConditionLists(LiverConditions) :
           LET config == get_cdss_config(_CDSS_CONFIG, cdss_config_file)
           IN  /\ _CDSS_CONFIG' = config
               /\ call' = [name |-> "check_liver_cirrhosis_portal_hypertension_updated",
                           conditions |-> conditions,
                           result |->
                               check_liver_cirrhosis_portal_hypertension_updated(
                                   Val(config), conditions)]
    /\ pc' = "returned"
    /\ UNCHANGED <<cdss_config_file, file_reads>>

NextConditions ==
    \/ ImportConfigLoader
    \/ CallCheckActiveCancerUpdated
    \/ CallCheckLiverCirrhosisPortalHypertensionUpdated
    \/ Return

SpecConditions == Init /\ [][NextConditions]_vars

NextConfig ==
    \/ ImportConfigLoader
    \/ ConfigFileChanges
    \/ CallGetCdssConfig
    \/ \E c \in Callers : GetCdssConfig_Line40(c)
    \/ \E c \in Callers : GetCdssConfig_Line42(c)
    \/ CallCalculatePreciseHbrScore
    \/ CallCheckActiveCancerUpdated
    \/ Return

SpecConfig == Init /\ [][NextConfig]_vars

(***************************************************************************)
(* The unit conversion, called with an observation and a parameter         *)
(***************************************************************************)
CallGetValueFromObservation ==
    /\ pc = "idle"
    /\ \E obs \in UnitObservations, parameter \in DOMAIN TARGET_UNITS :
           call' = [name |-> "get_value_from_observation",
                    obs |-> obs,
                    parameter |-> parameter,
                    result |-> get_value_from_observation(obs, TARGET_UNITS[parameter])]
    /\ pc' = "returned"
    /\ UNCHANGED <<cdss_config_file, _CDSS_CONFIG, file_reads>>

NextUnits ==
    \/ ImportConfigLoader
    \/ CallGetValueFromObservation
    \/ Return

SpecUnits == Init /\ [][NextUnits]_vars

(***************************************************************************)
(* The trade-off model; `model_file` is what the call finds at the path of *)
(* arc-hbr-model.json                                                      *)
(***************************************************************************)
CallCalculateTradeoffScores ==
    /\ pc = "idle"
    /\ \E model_file \in ModelFileStates, raw_data \in TradeoffBundles,
          demographics \in DemographicsSet, tradeoff_data \in TradeoffDataSets :
           LET config == get_cdss_config(_CDSS_CONFIG, cdss_config_file)
           IN  /\ _CDSS_CONFIG' = config
               /\ call' = [name |-> "calculate_tradeoff_scores",
                           model_file |-> model_file,
                           raw_data |-> raw_data,
                           demographics |-> demographics,
                           tradeoff_data |-> tradeoff_data,
                           result |-> calculate_tradeoff_scores(
                                          model_file, Val(config), raw_data,
                                          demographics, tradeoff_data)]
    /\ pc' = "returned"
    /\ UNCHANGED <<cdss_config_file, file_reads>>

CallGetTradeoffModelPredictors ==
    /\ pc = "idle"
    /\ \E model_file \in ModelFileStates :
           call' = [name |-> "get_tradeoff_model_predictors",
                    model_file |-> model_file,
                    result |-> get_tradeoff_model_predictors(model_file)]
    /\ pc' = "returned"
    /\ UNCHANGED <<cdss_config_file, _CDSS_CONFIG, file_reads>>

\* the caller passes what get_tradeoff_model_predictors returned
CallCalculateTradeoffScoresInteractive ==
    /\ pc = "idle"
    /\ \E model_file \in ModelFileStates, active_factors \in ActiveFactorSets :
           LET config == get_cdss_config(_CDSS_CONFIG, cdss_config_file)
               model_predictors == get_tradeoff_model_predictors(model_file)
           IN  /\ _CDSS_CONFIG' = config
               /\ call' = [name |-> "calculate_tradeoff_scores_interactive",
                           model_predictors |-> model_predictors,
                           active_factors |-> active_factors,
                           result |-> calculate_tradeoff_scores_interactive(
                                          Val(config), model_predictors, active_factors)]
    /\ pc' = "returned"
    /\ UNCHANGED <<cdss_config_file, file_reads>>

CallConvertHrToProbability ==
    /\ pc = "idle"
    /\ \E total_hr_score \in HazardRatioInputs,
          baseline_event_rate \in BaselineRateInputs :
           call' = [name |-> "convert_hr_to_probability",
                    total_hr_score |-> total_hr_score,
                    baseline_event_rate |-> baseline_event_rate,
                    result |-> convert_hr_to_probability(total_hr_score,
                                                         baseline_event_rate)]
    /\ pc' = "returned"
    /\ UNCHANGED <<cdss_config_file, _CDSS_CONFIG, file_reads>>

\* a call of detect_tradeoff_factors(raw_data, demographics, tradeoff_data)
CallDetectTradeoffFactors ==
    /\ pc = "idle"
    /\ \E raw_data \in FactorBundles, demographics \in DemographicsSet,
          tradeoff_data \in TradeoffDataSets :
           LET config == get_cdss_config(_CDSS_CONFIG, cdss_config_file)
           IN  /\ _CDSS_CONFIG' = config
               /\ call' = [name |-> "detect_tradeoff_factors",
                           raw_data |-> raw_data,
                           demographics |-> demographics,
                           tradeoff_data |-> tradeoff_data,
                           result |-> detect_tradeoff_factors(
                                          Val(config), raw_data, demographics,
                                          tradeoff_data)]
    /\ pc' = "returned"
    /\ UNCHANGED <<cdss_config_file, file_reads>>

\* the factor detection next to the two operations it is compared with
NextFactors ==
    \/ ImportConfigLoader
    \/ CallDetectTradeoffFactors
    \/ CallCalculateTradeoffScores
    \/ CallCalculatePreciseHbrScore
    \/ Return

SpecFactors == Init /\ [][NextFactors]_vars

NextTradeoff ==
    \/ ImportConfigLoader
    \/ CallCalculateTradeoffScores
    \/ CallGetTradeoffModelPredictors
    \/ CallCalculateTradeoffScoresInteractive
    \/ CallConvertHrToProbability
    \/ Return

SpecTradeoff == Init /\ [][NextTradeoff]_vars

(***************************************************************************)
(* fhir_data_service.get_fhir_data, one server exchange per step, and      *)
(* calculate_risk_api, which calls it and scores the bundle.               *)
(* LOINC_CODES and TEXT_SEARCH_TERMS are read from the configuration when  *)
(* the module is imported; the singleton does not change afterwards.       *)
(***************************************************************************)
LOINC_CODES == get_loinc_codes(Val(_CDSS_CONFIG))
TEXT_SEARCH_TERMS == get_text_search_terms(Val(_CDSS_CONFIG))

UNEXPECTED_ERROR == "An unexpected error occurred while fetching FHIR data."

\* a store that builds the bundle anew around the patient and the list stored
StoreObservationsInFreshBundle(raw_data, resource_type, obs_list) ==
    (resource_type :> obs_list) @@ [patient |-> raw_data.patient]

\* raw_data[resource_type] = obs_list
StoreObservations(raw_data, resource_type, obs_list) ==
    (resource_type :> obs_list) @@ raw_data

\* a failure return that also hands back a bundle
FailedWithBundle(message) == [raw_data |-> Some(EmptyDict), error |-> Some(message)]

\* `return None, str(e)` and `return None, "An unexpected error ..."`
FailedWith(message) == [raw_data |-> None, error |-> Some(message)]

\* the log of the queries issued: what was asked, and what the server did
Queries(kind, params, responses) ==
    [i \in 1..Len(params) |-> [kind |-> kind, param |-> params[i], response |-> responses[i]]]

\* setup_fhir_client and fetch_patient_resource
GetFhirData_FetchPatient ==
    /\ pc = "idle"
    /\ \E outcome \in PatientOutcomes :
           IF outcome.raises = Some("setup")
           THEN /\ call' = [name |-> "get_fhir_data", raw_data |-> EmptyDict,
                            remaining |-> <<>>, resource_type |-> None,
                            queries |-> <<>>, failed |-> {},
                            result |-> Some(FailedWith(UNEXPECTED_ERROR))]
                /\ pc' = "fetched"
           ELSE IF outcome.raises = Some("read")
           THEN /\ call' = [name |-> "get_fhir_data", raw_data |-> EmptyDict,
                            remaining |-> <<>>, resource_type |-> None,
                            queries |-> <<>>, failed |-> {},
                            result |-> Some(FailedWith("Failed to retrieve patient data."))]
                /\ pc' = "fetched"
           ELSE /\ call' = [name |-> "get_fhir_data",
                            raw_data |-> [patient |-> Val(outcome.resource)],
                            remaining |-> Items(LOINC_CODES), resource_type |-> None,
                            queries |-> <<>>, failed |-> {},
                            result |-> None]
                /\ pc' = "resolve"
    /\ UNCHANGED <<cdss_config_file, _CDSS_CONFIG, file_reads>>

\* one iteration of `for resource_type, codes in LOINC_CODES.items()`
GetFhirData_ResolveParameter ==
    /\ pc = "resolve"
    /\ call.remaining # <<>>
    /\ LET resource_type == Head(call.remaining)[1]
           codes == Head(call.remaining)[2]
           text_terms == Get(TEXT_SEARCH_TERMS, resource_type, <<>>)
       IN  \E response \in Responses(resource_type),
              text_responses \in [1..Len(text_terms) -> Responses(resource_type)] :
               LET coded == fetch_observations_by_loinc(codes, response)
                   fallback == coded.obs_list = <<>>
                               /\ resource_type \in DOMAIN TEXT_SEARCH_TERMS
                   text == IF fallback
                           THEN fetch_observations_by_text(text_terms, text_responses)
                           ELSE [obs_list |-> <<>>, queried |-> <<>>]
                   obs_list == IF fallback THEN text.obs_list ELSE coded.obs_list
                   queries == Queries("code", coded.queried, <<response>>)
                              \o Queries("code:text", text.queried, text_responses)
                   all_raised == /\ queries # <<>>
                                 /\ \A i \in 1..Len(queries) : queries[i].response.raises
               IN  call' = [call EXCEPT
                               !.raw_data = StoreObservations(@, resource_type, obs_list),
                               !.remaining = Tail(@),
                               !.resource_type = Some(resource_type),
                               !.queries = queries,
                               !.failed = IF all_raised THEN @ \cup {resource_type}
                                          ELSE @]
    /\ pc' = "resolve"
    /\ UNCHANGED <<cdss_config_file, _CDSS_CONFIG, file_reads>>

\* fetch_conditions, the two empty lists, and the return; an exception that reaches
\* get_fhir_data here is caught by its outer handler
GetFhirData_FetchConditions ==
    /\ pc = "resolve"
    /\ call.remaining = <<>>
    /\ \E response \in ConditionResponses :
           LET outcome == fetch_conditions(response)
               raw_data == ("procedures" :> <<>>) @@ ("med_requests" :> <<>>)
                           @@ ("conditions" :> Val(outcome.value)) @@ call.raw_data
           IN  IF IsNone(outcome.raised)
               THEN call' = [call EXCEPT
                                !.raw_data = raw_data,
                                !.resource_type = Some("conditions"),
                                !.queries = Queries("Condition", <<"patient">>,
                                                    <<response>>),
                                !.failed = IF response.raises THEN @ \cup {"conditions"}
                                           ELSE @,
                                !.result = Some([raw_data |-> Some(raw_data),
                                                 error |-> None])]
               ELSE call' = [call EXCEPT
                                !.resource_type = Some("conditions"),
                                !.queries = Queries("Condition", <<"patient">>,
                                                    <<response>>),
                                !.failed = @ \cup {"conditions"},
                                !.result = Some(FailedWith(UNEXPECTED_ERROR))]
    /\ pc' = "fetched"
    /\ UNCHANGED <<cdss_config_file, _CDSS_CONFIG, file_reads>>

\* calculate_risk_api after get_fhir_data returned: the error check, the demographics,
\* the score and its display information
CalculateRiskApi ==
    /\ pc = "fetched"
    /\ \E today \in Todays :
           LET fetched == Val(call.result)
               config == get_cdss_config(_CDSS_CONFIG, cdss_config_file)
               failure == [name |-> "calculate_risk_api", status |-> 500,
                           error |-> Some("An internal server error occurred."),
                           raw_data |-> fetched.raw_data, failed |-> call.failed]
           IN  /\ _CDSS_CONFIG' = config
               /\ IF ~IsNone(fetched.error) THEN call' = failure
                  ELSE IF \/ IsNone(fetched.raw_data)
                          \/ DOMAIN Get(Val(fetched.raw_data), "patient", EmptyDict) = {}
                  THEN call' = failure
                  ELSE LET raw_data == Val(fetched.raw_data)
                           demographics ==
                               get_patient_demographics(raw_data.patient, today)
                           score == calculate_precise_hbr_score(Val(config), raw_data,
                                                                demographics)
                           display_info == get_precise_hbr_display_info(score.final_score)
                       IN  call' = [name |-> "calculate_risk_api", status |-> 200,
                                    error |-> None,
                                    raw_data |-> fetched.raw_data,
                                    failed |-> call.failed,
                                    demographics |-> demographics,
                                    total_score |-> score.final_score,
                                    risk_level |-> display_info.full_label,
                                    score_components |-> score.components]
    /\ pc' = "returned"
    /\ UNCHANGED <<cdss_config_file, file_reads>>

NextFetch ==
    \/ ImportConfigLoader
    \/ GetFhirData_FetchPatient
    \/ GetFhirData_ResolveParameter
    \/ GetFhirData_FetchConditions
    \/ CalculateRiskApi
    \/ Return

SpecFetch == Init /\ [][NextFetch]_vars

(***************************************************************************)
(* Requests of one browser to the web application; the cookie of the last  *)
(* response is the session of the next request                             *)
(***************************************************************************)
Cookie == Get(call, "session", EmptyDict)

Browsing == pc \in {"idle", "responded"}

Responded(name, path, response) ==
    [name |-> name, path |-> path, session |-> response.session,
     status |-> response.status, ran |-> FALSE]

RequestLaunch ==
    /\ Browsing
    /\ \E iss \in IssValues, endpoints \in BOOLEAN :
           call' = Responded("launch", "/launch", launch(Cookie, iss, endpoints))
    /\ pc' = "responded"
    /\ UNCHANGED <<cdss_config_file, _CDSS_CONFIG, file_reads>>

RequestExchangeCode ==
    /\ Browsing
    /\ \E code \in CodeValues, token_endpoint \in TokenEndpointAnswers :
           call' = Responded("exchange_code", "/api/exchange-code",
                             exchange_code(Cookie, code, token_endpoint))
    /\ pc' = "responded"
    /\ UNCHANGED <<cdss_config_file, _CDSS_CONFIG, file_reads>>

RequestTestMode ==
    /\ Browsing
    /\ \E production \in BOOLEAN, server \in TestServers :
           call' = Responded("test_mode", "/test-mode",
                             test_mode(Cookie, production, server, Some("smart-1288992")))
    /\ pc' = "responded"
    /\ UNCHANGED <<cdss_config_file, _CDSS_CONFIG, file_reads>>

RequestLogout ==
    /\ Browsing
    /\ call' = Responded("logout", "/logout", logout(Cookie))
    /\ pc' = "responded"
    /\ UNCHANGED <<cdss_config_file, _CDSS_CONFIG, file_reads>>

\* /main and /api/calculate_risk of APP.py
RequestProtected ==
    /\ Browsing
    /\ \E path \in ProtectedPaths :
           LET decision == login_required(Cookie, path)
           IN  call' = [name |-> "login_required", path |-> path, session |-> Cookie,
                        status |-> decision.status, ran |-> decision.ran]
    /\ pc' = "responded"
    /\ UNCHANGED <<cdss_config_file, _CDSS_CONFIG, file_reads>>

\* /main and /api/calculate_risk of views.py
RequestProtectedView ==
    /\ Browsing
    /\ \E path \in ProtectedPaths :
           LET decision == session_required(Cookie)
           IN  call' = [name |-> "session_required", path |-> path, session |-> Cookie,
                        status |-> decision.status, ran |-> decision.ran]
    /\ pc' = "responded"
    /\ UNCHANGED <<cdss_config_file, _CDSS_CONFIG, file_reads>>

NextSession ==
    \/ ImportConfigLoader
    \/ RequestLaunch
    \/ RequestExchangeCode
    \/ RequestTestMode
    \/ RequestLogout
    \/ RequestProtected
    \/ RequestProtectedView

SpecSession == Init /\ [][NextSession]_vars

(***************************************************************************)
(* The iterations of the loop over LOINC_CODES run by an orchestrating     *)
(* caller as one task per parameter, a task advancing by one search at a   *)
(* time.  `server` fixes what the server answers to each parameter's       *)
(* coded query and to its text queries.                                    *)
(***************************************************************************)
FullBundle(resource_type) ==
    Bundle(<<Entry(ServerObservations[resource_type].older),
             Entry(ServerObservations[resource_type].newer)>>)

AnswersTo(resource_type) ==
    {[code |-> FullBundle(resource_type), text |-> SearchRaises],
     [code |-> Bundle(<<>>), text |-> FullBundle(resource_type)],
     [code |-> SearchRaises, text |-> Bundle(<<>>)]}

Servers ==
    [EGFR : AnswersTo("EGFR"), CREATININE : AnswersTo("CREATININE"),
     HEMOGLOBIN : AnswersTo("HEMOGLOBIN"), WBC : AnswersTo("WBC"),
     PLATELETS : AnswersTo("PLATELETS")]

\* the server's answers to the text queries of one parameter
TextAnswers(server, resource_type) ==
    [i \in 1..Len(Get(TEXT_SEARCH_TERMS, resource_type, <<>>)) |-> server[resource_type].text]

\* the loop of get_fhir_data as the code runs it, one parameter after the other
RECURSIVE ResolveSequentially(_, _, _)
ResolveSequentially(items, server, raw_data) ==
    IF items = <<>> THEN raw_data
    ELSE LET resource_type == Head(items)[1]
             codes == Head(items)[2]
             coded == fetch_observations_by_loinc(codes, server[resource_type].code)
             obs_list ==
                 IF coded.obs_list = <<>> /\ resource_type \in DOMAIN TEXT_SEARCH_TERMS
                 THEN fetch_observations_by_text(TEXT_SEARCH_TERMS[resource_type],
                                                 TextAnswers(server, resource_type)).obs_list
                 ELSE coded.obs_list
         IN  ResolveSequentially(Tail(items), server,
                                 StoreObservations(raw_data, resource_type, obs_list))

\* the patient was read and the tasks are started
StartResolutions ==
    /\ pc = "idle"
    /\ \E patient \in Patients, server \in Servers :
           call' = [name |-> "resolve_parameters",
                    raw_data |-> [patient |-> patient],
                    server |-> server,
                    at |-> [resource_type \in DOMAIN LOINC_CODES |-> "line 104"],
                    resolved |-> <<>>]
    /\ pc' = IF DOMAIN LOINC_CODES = {} THEN "returned" ELSE "resolutions"
    /\ UNCHANGED <<cdss_config_file, _CDSS_CONFIG, file_reads>>

\* pc after a task finished
AfterTask(resource_type) ==
    IF \A other \in DOMAIN call.at \ {resource_type} : call.at[other] = "done"
    THEN "returned" ELSE "resolutions"

\* lines 104-120 of one task: the coded search, and the store unless the text search
\* follows
Resolve_Line104(resource_type) ==
    /\ pc = "resolutions"
    /\ call.at[resource_type] = "line 104"
    /\ LET coded == fetch_observations_by_loinc(LOINC_CODES[resource_type],
                                                call.server[resource_type].code)
       IN  IF coded.obs_list = <<>> /\ resource_type \in DOMAIN TEXT_SEARCH_TERMS
           THEN /\ call' = [call EXCEPT !.at[resource_type] = "line 113"]
                /\ pc' = pc
           ELSE /\ call' = [call EXCEPT
                                !.raw_data = StoreObservations(@, resource_type,
                                                               coded.obs_list),
                                !.at[resource_type] = "done",
                                !.resolved = Append(@, resource_type)]
                /\ pc' = AfterTask(resource_type)
    /\ UNCHANGED <<cdss_config_file, _CDSS_CONFIG, file_reads>>

\* lines 113-120 of one task: the text search and the store
Resolve_Line113(resource_type) ==
    /\ pc = "resolutions"
    /\ call.at[resource_type] = "line 113"
    /\ LET text == fetch_observations_by_text(TEXT_SEARCH_TERMS[resource_type],
                                              TextAnswers(call.server, resource_type))
       IN  call' = [call EXCEPT
                       !.raw_data = StoreObservations(@, resource_type, text.obs_list),
                       !.at[resource_type] = "done",
                       !.resolved = Append(@, resource_type)]
    /\ pc' = AfterTask(resource_type)
    /\ UNCHANGED <<cdss_config_file, _CDSS_CONFIG, file_reads>>

NextResolutions ==
    \/ ImportConfigLoader
    \/ StartResolutions
    \/ \E resource_type \in DOMAIN Get(call, "at", EmptyDict) : Resolve_Line104(resource_type)
    \/ \E resource_type \in DOMAIN Get(call, "at", EmptyDict) : Resolve_Line113(resource_type)
    \/ Return

SpecResolutions == Init /\ [][NextResolutions]_vars

(***************************************************************************)
(* The two searches of a parameter, called as get_fhir_data calls them for  *)
(* hemoglobin, with what the server answers                                *)
(***************************************************************************)
CallFetchObservationsByLoinc ==
    /\ pc = "idle"
    /\ "HEMOGLOBIN" \in DOMAIN LOINC_CODES
    /\ \E response \in SearchResponses :
           call' = [name |-> "fetch_observations_by_loinc",
                    responses |-> <<response>>,
                    result |-> fetch_observations_by_loinc(LOINC_CODES.HEMOGLOBIN,
                                                           response)]
    /\ pc' = "returned"
    /\ UNCHANGED <<cdss_config_file, _CDSS_CONFIG, file_reads>>

\* the first term finds nothing, the second is answered
CallFetchObservationsByText ==
    /\ pc = "idle"
    /\ "HEMOGLOBIN" \in DOMAIN TEXT_SEARCH_TERMS
    /\ \E first \in {SearchRaises, Bundle(<<>>)}, response \in SearchResponses :
           call' = [name |-> "fetch_observations_by_text",
                    responses |-> <<first, response>>,
                    result |-> fetch_observations_by_text(TEXT_SEARCH_TERMS.HEMOGLOBIN,
                                                          <<first, response>>)]
    /\ pc' = "returned"
    /\ UNCHANGED <<cdss_config_file, _CDSS_CONFIG, file_reads>>

NextSearch ==
    \/ ImportConfigLoader
    \/ CallFetchObservationsByLoinc
    \/ CallFetchObservationsByText
    \/ Return

SpecSearch == Init /\ [][NextSearch]_vars

Next ==
    \/ ImportConfigLoader
    \/ CallCalculatePreciseHbrScore
    \/ CallGetPreciseHbrDisplayInfo
    \/ CallGetRiskCategoryInfo
    \/ CallCalculateBleedingRiskPercentage
    \/ CallGetValueFromObservation
    \/ ConfigFileChanges
    \/ CallGetCdssConfig
    \/ \E c \in Callers : GetCdssConfig_Line40(c)
    \/ \E c \in Callers : GetCdssConfig_Line42(c)
    \/ CallCheckActiveCancerUpdated
    \/ CallCheckLiverCirrhosisPortalHypertensionUpdated
    \/ CallDetectTradeoffFactors
    \/ CallCalculateTradeoffScores
    \/ CallGetTradeoffModelPredictors
    \/ CallCalculateTradeoffScoresInteractive
    \/ CallConvertHrToProbability
    \/ GetFhirData_FetchPatient
    \/ GetFhirData_ResolveParameter
    \/ GetFhirData_FetchConditions
    \/ CalculateRiskApi
    \/ StartResolutions
    \/ \E resource_type \in DOMAIN Get(call, "at", EmptyDict) : Resolve_Line104(resource_type)
    \/ \E resource_type \in DOMAIN Get(call, "at", EmptyDict) : Resolve_Line113(resource_type)
    \/ RequestLaunch
    \/ RequestExchangeCode
    \/ RequestTestMode
    \/ RequestLogout
    \/ RequestProtected
    \/ RequestProtectedView
    \/ CallFetchObservationsByLoinc
    \/ CallFetchObservationsByText
    \/ Return

Spec == Init /\ [][Next]_vars

(***************************************************************************)
(* Properties of the composite scorer                                      *)
(***************************************************************************)
Scored == call.name = "calculate_precise_hbr_score"

Clamp(lo, hi, x) == max(lo, min(hi, x))

\* The unrounded contribution of a returned continuous component, recomputed from the
\* normalised value it reports by the scoring table: clamp, then the linear formula
\* if the effective value crosses the threshold.
UnroundedAge(component) ==
    IF IsNone(component.raw_value) THEN 0
    ELSE LET e == Clamp(30, 80, Val(component.raw_value))
         IN  IF e > 30 THEN ((e - 30) * ScoreScale) \div 4 ELSE 0
UnroundedHemoglobin(component) ==
    IF IsNone(component.raw_value) THEN 0
    ELSE LET e == Clamp(5 * ValueScale, 15 * ValueScale, Val(component.raw_value))
         IN  IF e < 15 * ValueScale
             THEN ((15 * ValueScale - e) * 5 * (ScoreScale \div ValueScale)) \div 2 ELSE 0
UnroundedEgfr(component) ==
    IF IsNone(component.raw_value) THEN 0
    ELSE LET e == Clamp(5 * ValueScale, 100 * ValueScale, Val(component.raw_value))
         IN  IF e < 100 * ValueScale
             THEN ((100 * ValueScale - e) * (ScoreScale \div ValueScale)) \div 20 ELSE 0
UnroundedWbc(component) ==
    IF IsNone(component.raw_value) THEN 0
    ELSE LET e == min(15 * ValueScale, Val(component.raw_value))
         IN  IF e > 3 * ValueScale
             THEN ((e - 3 * ValueScale) * 4 * (ScoreScale \div ValueScale)) \div 5 ELSE 0

UnroundedSum(components) ==
    2 * ScoreScale
    + UnroundedAge(components[2]) + UnroundedHemoglobin(components[3])
    + UnroundedEgfr(components[4]) + UnroundedWbc(components[5])
    + (components[6].score + components[7].score + components[13].score) * ScoreScale

RECURSIVE SumOfScores(_)
SumOfScores(components) ==
    IF components = <<>> THEN 0
    ELSE Head(components).score + SumOfScores(Tail(components))

\* C1: the final score of every scoring call is round(2 + the unrounded age, hemoglobin,
\* eGFR and WBC contributions + the categorical deltas); the rounded per-component
\* scores are not what is summed.
C1_FinalIsRoundOfUnroundedSum ==
    Scored => call.result.final_score = round(UnroundedSum(call.result.components))

\* C1 witness: a scoring call whose final score differs from the sum of the displayed
\* component scores.
C1_Witness_DisplayedSumDiffers ==
    /\ Scored
    /\ call.result.final_score # SumOfScores(call.result.components)
    /\ call.result.final_score = round(UnroundedSum(call.result.components))

ConfigLoadFailed == cdss_config_file \in {"missing", "invalid"}

\* C2: once the configuration failed to load, no scoring call returns a score: every
\* call surfaces a configuration error.
C2_FailedConfigNeverScores ==
    (Scored /\ ConfigLoadFailed) => "final_score" \notin DOMAIN call.result

LabKeys == {"HEMOGLOBIN", "EGFR", "WBC"}

Unusable(list, key) ==
    list # <<>> /\ IsNone(get_value_from_observation(First(list), TARGET_UNITS[key]))

Scores(components) == [i \in 1..Len(components) |-> components[i].score]

\* C3: a lab observation whose value is unusable scores exactly as an empty observation
\* list for that parameter does: same component scores, same final score.
C3_UnusableScoresAsAbsent ==
    Scored =>
        \A key \in LabKeys :
            Unusable(call.raw_data[key], key) =>
                LET absent == calculate_precise_hbr_score(
                                  Val(_CDSS_CONFIG),
                                  [call.raw_data EXCEPT ![key] = <<>>],
                                  call.demographics)
                IN  /\ absent.final_score = call.result.final_score
                    /\ Scores(absent.components) = Scores(call.result.components)

\* C9: for every age of 80 or more the effective age is 80 and the age component's
\* contribution is 13.
C9_AgeAtLeast80Contributes13 ==
    (Scored /\ ~IsNone(call.demographics.age) /\ Val(call.demographics.age) >= 80) =>
        /\ call.result.components[2].effective = 80
        /\ call.result.components[2].score = 13

HbValue(raw_data) ==
    IF raw_data.HEMOGLOBIN = <<>> THEN None
    ELSE get_value_from_observation(First(raw_data.HEMOGLOBIN), TARGET_UNITS.HEMOGLOBIN)

\* what the scoring call added for hemoglobin: the total less every other contribution
HbAdded ==
    call.result.total_score
    - (UnroundedSum(call.result.components)
       - UnroundedHemoglobin(call.result.components[3]))

\* C10: a hemoglobin value at or below 5 g/dL contributes 25, and a value that converts
\* to exactly 15.0 g/dL contributes 0.
C10_HemoglobinContribution ==
    (Scored /\ ~IsNone(HbValue(call.raw_data))) =>
        LET hb == Val(HbValue(call.raw_data))
        IN  /\ hb <= 5 * ValueScale =>
                   /\ HbAdded = 25 * ScoreScale
                   /\ call.result.components[3].score = 25
            /\ hb = 15 * ValueScale =>
                   /\ HbAdded = 0
                   /\ call.result.components[3].score = 0

(***************************************************************************)
(* The end-to-end scenarios                                                *)
(***************************************************************************)
Displayed == call.name = "get_precise_hbr_display_info"

LabValue(raw_data, key) ==
    IF raw_data[key] = <<>> THEN None
    ELSE get_value_from_observation(First(raw_data[key]), TARGET_UNITS[key])

\* the component of a lab parameter among the returned components
ComponentOf(components, key) ==
    CASE key = "HEMOGLOBIN" -> components[3]
      [] key = "EGFR" -> components[4]
      [] key = "WBC" -> components[5]

MarkedNotAvailable(component) ==
    /\ component.value = "Not available"
    /\ component.score = 0
    /\ IsNone(component.raw_value)

\* the score of a lab value by the clamping rule
ClampedScore(key, value) ==
    LET reported == [raw_value |-> value]
    IN  CASE key = "HEMOGLOBIN" -> round(UnroundedHemoglobin(reported))
          [] key = "EGFR" -> round(UnroundedEgfr(reported))
          [] key = "WBC" -> round(UnroundedWbc(reported))

\* C15: the component of a lab parameter whose first observation is the one scored
\* (hemoglobin, WBC, a direct eGFR) carries the 'Not available' marker with score 0
\* exactly when that parameter has no observation, no value or no convertible unit; a
\* usable value, 0 included, is scored by the clamping rule.
C15_NotAvailableIffNoUsableValue ==
    Scored =>
        \A key \in LabKeys :
            (key = "EGFR" => call.raw_data.EGFR # <<>>) =>
                LET value == LabValue(call.raw_data, key)
                    component == ComponentOf(call.result.components, key)
                IN  /\ MarkedNotAvailable(component) <=> IsNone(value)
                    /\ ~IsNone(value) =>
                           /\ component.raw_value = value
                           /\ component.score = ClampedScore(key, value)

\* age 50, hemoglobin 11 g/dL, eGFR 68, WBC 5
ScenarioValues(frame) ==
    /\ frame.demographics.age = Some(50)
    /\ LabValue(frame.raw_data, "HEMOGLOBIN") = Some(11 * ValueScale)
    /\ LabValue(frame.raw_data, "EGFR") = Some(68 * ValueScale)
    /\ LabValue(frame.raw_data, "WBC") = Some(5 * ValueScale)

NoCategoricalInput(raw_data) ==
    /\ raw_data.conditions = <<>>
    /\ raw_data.med_requests = <<>>
    /\ raw_data.PLATELETS = <<>>

\* C11: for age 50, hemoglobin 11 g/dL, eGFR 68, WBC 5 and no categorical factor the
\* contributions are 5.0, 10.0, 1.6 and 1.6, the unrounded total is 20.2, the final score
\* is 20, the category is 'Not high bleeding risk' and the displayed probability is 3.23%.
C11_ScenarioWithoutFactors ==
    (Displayed /\ ScenarioValues(call.scored) /\ NoCategoricalInput(call.scored.raw_data)) =>
        LET components == call.scored.result.components
        IN  /\ UnroundedAge(components[2]) = 5 * ScoreScale
            /\ UnroundedHemoglobin(components[3]) = 10 * ScoreScale
            /\ UnroundedEgfr(components[4]) = 16 * (ScoreScale \div 10)
            /\ UnroundedWbc(components[5]) = 16 * (ScoreScale \div 10)
            /\ call.scored.result.total_score = 202 * (ScoreScale \div 10)
            /\ call.scored.result.final_score = 20
            /\ call.result.score = 20
            /\ call.result.risk_category = "Not high bleeding risk"
            /\ call.result.bleeding_risk_percent = 323

\* C11 witness: the scenario was scored and its display information computed
C11_Witness_ScenarioDisplayed ==
    /\ Displayed
    /\ ScenarioValues(call.scored)
    /\ NoCategoricalInput(call.scored.raw_data)
    /\ call.precise_hbr_score = 20
    /\ call.result.bleeding_risk_percent = 323

\* the bundle of a frame with its conditions, medications and platelets removed
WithoutCategorical(raw_data) ==
    [raw_data EXCEPT !.conditions = <<>>, !.med_requests = <<>>, !.PLATELETS = <<>>]

\* the scenario's bundle with prior bleeding, an oral anticoagulant and ARC-HBR factors
ScenarioFactors(raw_data) ==
    /\ cdss_config_file = "ok"
    /\ raw_data.conditions = <<Ascites, Cirrhosis, GIBleeding>>
    /\ raw_data.med_requests = <<Med(<<"Ibuprofen">>), Med(<<"Warfarin">>)>>

\* C12: the total of every scoring call is the total of the same bundle without its
\* categorical inputs plus 7 for prior bleeding, 5 for oral anticoagulation and 3 for the
\* ARC-HBR summary, each when present; the scenario of C11 with all three present has
\* the total 35.2, the final score 35, the category 'Very HBR' and the probability 12.00%.
C12_CategoricalDeltas ==
    /\ Scored =>
           LET plain == calculate_precise_hbr_score(Val(_CDSS_CONFIG),
                                                    WithoutCategorical(call.raw_data),
                                                    call.demographics)
               components == call.result.components
               delta(component, points) == IF component.is_present THEN points ELSE 0
           IN  /\ call.result.total_score
                      = plain.total_score
                        + (delta(components[6], 7) + delta(components[7], 5)
                           + delta(components[13], 3)) * ScoreScale
               /\ components[6].score = delta(components[6], 7)
               /\ components[7].score = delta(components[7], 5)
               /\ components[13].score = delta(components[13], 3)
    /\ (Displayed /\ ScenarioValues(call.scored) /\ ScenarioFactors(call.scored.raw_data)) =>
           /\ call.scored.result.total_score = 352 * (ScoreScale \div 10)
           /\ call.scored.result.final_score = 35
           /\ call.result.risk_category = "Very HBR"
           /\ call.result.bleeding_risk_percent = 1200

\* C12 witness: the scenario with the three factors was scored and displayed
C12_Witness_ScenarioWithFactorsDisplayed ==
    /\ Displayed
    /\ ScenarioValues(call.scored)
    /\ ScenarioFactors(call.scored.raw_data)
    /\ call.scored.result.components[6].is_present
    /\ call.scored.result.components[7].is_present
    /\ call.scored.result.components[13].is_present
    /\ call.precise_hbr_score = 35

\* C18: the eGFR scored is the direct eGFR observation when one is present with a value,
\* whatever creatinine, age and sex are; without a direct observation it is the CKD-EPI
\* 2021 value of creatinine, age and sex, and only when the creatinine value is usable,
\* the age is known and the sex is male or female; when neither route gives a value the
\* component is marked not available and contributes 0.
C18_EgfrRoute ==
    Scored =>
        LET raw_data == call.raw_data
            age == call.demographics.age
            gender == call.demographics.gender
            component == ComponentOf(call.result.components, "EGFR")
            direct == LabValue(raw_data, "EGFR")
            creatinine == LabValue(raw_data, "CREATININE")
            computable == /\ ~IsNone(creatinine)
                          /\ ~IsNone(age)
                          /\ gender \in {Some("male"), Some("female")}
            Uses(value, source) ==
                /\ component.raw_value = value
                /\ component.value = source
                /\ component.score = ClampedScore("EGFR", value)
        IN  /\ ~IsNone(direct) => Uses(direct, "Direct eGFR")
            /\ (raw_data.EGFR = <<>> /\ computable) =>
                   Uses(Some(CKD_EPI_2021(Val(creatinine), Val(age), Val(gender))
                             * ValueScale),
                        "CKD-EPI 2021")
            /\ (IsNone(direct) /\ ~computable) => MarkedNotAvailable(component)

\* C18 witness: no direct eGFR, creatinine 177 umol/L, a woman of 80: eGFR 25 by the
\* formula, 4 points
C18_Witness_ComputedFromCreatinine ==
    /\ Scored
    /\ call.raw_data.EGFR = <<>>
    /\ call.raw_data.CREATININE = <<Obs(1770, "umol/L")>>
    /\ call.demographics = [age |-> Some(80), gender |-> Some("female")]
    /\ call.result.components[4].raw_value = Some(25 * ValueScale)
    /\ call.result.components[4].value = "CKD-EPI 2021"
    /\ call.result.components[4].score = 4

\* the components of the five ARC-HBR elements; their summary is component 13
ArcHbrElements == 8..12

\* C19: has_any_factor, reported by the summary component, is the OR of the five
\* elements (thrombocytopenia, bleeding diathesis, liver cirrhosis with portal
\* hypertension, active malignancy, NSAID or corticosteroid use); the ARC-HBR
\* contribution to the total is 3 when it is true and 0 otherwise, however many
\* elements are true; each element component contributes 0.
C19_ArcHbrIsOneFlatDelta ==
    Scored =>
        LET components == call.result.components
            has_any_factor == \E i \in ArcHbrElements : components[i].is_present
            delta == IF has_any_factor THEN 3 ELSE 0
        IN  /\ components[13].is_present = has_any_factor
            /\ components[13].score = delta
            /\ \A i \in ArcHbrElements : components[i].score = 0
            /\ call.result.total_score =
                   2 * ScoreScale
                   + UnroundedAge(components[2]) + UnroundedHemoglobin(components[3])
                   + UnroundedEgfr(components[4]) + UnroundedWbc(components[5])
                   + (components[6].score + components[7].score + delta) * ScoreScale

\* C19 witness: all five elements are true and the summary contributes 3
C19_Witness_AllFiveElements ==
    /\ Scored
    /\ \A i \in ArcHbrElements : call.result.components[i].is_present
    /\ call.result.components[13].score = 3

\* C20: thrombocytopenia, reported by the platelet component, is true exactly when the
\* first platelet observation has a usable normalised value below 100 x10^9/L, the
\* configured threshold and its default, whatever that value is; it is false with no
\* usable value and with a value at or above the threshold.
C20_ThrombocytopeniaIffBelowThreshold ==
    Scored =>
        LET value == LabValue(call.raw_data, "PLATELETS")
        IN  call.result.components[8].is_present
                <=> (~IsNone(value) /\ Val(value) < 100 * ValueScale)

\* C23: every scoring call returns the same 13 components in the same order: base, age,
\* hemoglobin, eGFR, WBC, prior bleeding, oral anticoagulation, the five ARC-HBR
\* elements and the ARC-HBR summary; none is left out when its data is unavailable.
C23_ThirteenComponentsInOrder ==
    Scored =>
        /\ Len(call.result.components) = 13
        /\ [i \in 1..13 |-> call.result.components[i].parameter] =
               <<"PRECISE-HBR - Base Score",
                 "PRECISE-HBR - Age",
                 "PRECISE-HBR - Hemoglobin",
                 "PRECISE-HBR - eGFR",
                 "PRECISE-HBR - White Blood Cell Count",
                 "PRECISE-HBR - Prior Bleeding",
                 "PRECISE-HBR - Oral Anticoagulation",
                 "PRECISE-HBR - Platelet Count",
                 "PRECISE-HBR - Chronic Bleeding Diathesis",
                 "PRECISE-HBR - Liver Cirrhosis",
                 "PRECISE-HBR - Active Malignancy",
                 "PRECISE-HBR - NSAIDs/Corticosteroids",
                 "PRECISE-HBR - ARC-HBR Summary">>

\* C23 witness: a bundle without any lab value and a patient of unknown age: the four
\* continuous components are listed as unavailable
C23_Witness_NothingAvailable ==
    /\ Scored
    /\ call.demographics.age = None
    /\ \A key \in {"HEMOGLOBIN", "EGFR", "CREATININE", "WBC", "PLATELETS"} :
           call.raw_data[key] = <<>> \/ Unusable(call.raw_data[key], key)
    /\ Len(call.result.components) = 13
    /\ call.result.components[2].value = "Unknown"
    /\ \A i \in 3..5 : MarkedNotAvailable(call.result.components[i])

(***************************************************************************)
(* Properties of the trade-off model                                       *)
(***************************************************************************)
\* C4: when the hazard-ratio model file is absent, is not valid JSON or lacks
\* tradeoffModel, calculate_tradeoff_scores ends in a hard failure: it returns no result
\* carrying a bleeding and a thrombotic score.
C4_UnusableModelFileIsHardFailure ==
    (call.name = "calculate_tradeoff_scores" /\ call.model_file # "ok") =>
        \/ IsNone(call.result.value)
        \/ {"bleeding_score", "thrombotic_score"} \cap DOMAIN Val(call.result.value) = {}

Interactive ==
    /\ call.name = "calculate_tradeoff_scores_interactive"
    /\ ~IsNone(call.result.value)

\* the keys of an active_factors dict whose value is true
ActiveKeys(active_factors) == {k \in DOMAIN active_factors : active_factors[k]}

\* the predictors whose factor key is among `keys`, in the model's order
Chosen(predictors, keys) == SelectSeq(predictors, LAMBDA p : p.factor \in keys)

\* 1.0 times the hazard ratios of the predictors, in 1/HRScale
RECURSIVE AggregateOf(_)
AggregateOf(predictors) ==
    IF predictors = <<>> THEN HRScale
    ELSE (AggregateOf(Tail(predictors)) * Head(predictors).hazardRatio + 50) \div 100

\* the hazard ratios of the predictors added up, in 1/HRScale
RECURSIVE SumOf(_)
SumOf(predictors) ==
    IF predictors = <<>> THEN 0
    ELSE 100 * Head(predictors).hazardRatio + SumOf(Tail(predictors))

EventAggregation(predictors, active_factors, aggregate, factors, probability) ==
    LET chosen == Chosen(predictors, ActiveKeys(active_factors))
    IN  /\ aggregate = AggregateOf(chosen)
        /\ chosen # <<>> => aggregate # HRScale + SumOf(chosen)
        /\ Len(chosen) >= 2 => aggregate # SumOf(chosen)
        /\ factors = [i \in 1..Len(chosen) |->
                          <<chosen[i].description, chosen[i].hazardRatio>>]
        /\ chosen = <<>> => /\ aggregate = HRScale
                            /\ probability = 10 * DEFAULT_BASELINE_RATE

\* C13: for each event type the aggregate hazard ratio of calculate_tradeoff_scores_interactive
\* is 1.0 times the hazard ratios of exactly the predictors whose factor key is true in
\* active_factors, not their sum; the returned factor list names exactly those
\* predictors; with none active the aggregate is 1.0 and the probability is the
\* baseline rate, 2.50.
C13_AggregateIsProductOfActive ==
    Interactive =>
        LET model == Val(call.model_predictors)
            result == Val(call.result.value)
        IN  /\ EventAggregation(model.bleedingEvents.predictors, call.active_factors,
                                result.bleeding_score_hr, result.bleeding_factors,
                                result.bleeding_score)
            /\ EventAggregation(model.thromboticEvents.predictors, call.active_factors,
                                result.thrombotic_score_hr, result.thrombotic_factors,
                                result.thrombotic_score)

\* C13 witness: a call with three active bleeding predictors, one active thrombotic
\* predictor and a key that is present but false
C13_Witness_SeveralActiveOneInactive ==
    /\ Interactive
    /\ Len(Val(call.result.value).bleeding_factors) = 3
    /\ Len(Val(call.result.value).thrombotic_factors) = 1
    /\ \E k \in DOMAIN call.active_factors : ~call.active_factors[k]
    /\ Val(call.result.value).bleeding_score_hr > 3 * HRScale

Converted == call.name = "convert_hr_to_probability"

\* n / d to the nearest integer
Nearest(n, d) == (2 * n + d) \div (2 * d)

\* (1 - (1 - rate/100)^n) * 100 in hundredths of a percent, for a whole hazard ratio n
\* of 1, 2 or 3 and a rate in tenths of a percent
WholeRatioProbability(n, rate) ==
    LET q == 1000 - rate
    IN  CASE n = 1 -> 10 * rate
          [] n = 2 -> Nearest(1000 * 1000 - q * q, 100)
          [] n = 3 -> Nearest(1000 * 1000 * 1000 - q * q * q, 100 * 1000)

\* C14: convert_hr_to_probability never returns more than 100; a hazard ratio of 1.47
\* against a baseline of 2.5% gives 3.65; a baseline of 100% or more gives 100; and for
\* the whole hazard ratios 1, 2 and 3 the result is (1 - (1 - rate/100)^HR) * 100 to two
\* decimals, so that a hazard ratio of 1 gives the baseline rate back.
C14_CoxProbability ==
    Converted =>
        /\ call.result <= 100 * 100
        /\ call.result >= 0
        /\ (call.total_hr_score = 14700 /\ call.baseline_event_rate = 25) =>
               call.result = 365
        /\ call.baseline_event_rate >= 1000 => call.result = 100 * 100
        /\ \A n \in 1..3 :
               (call.total_hr_score = n * HRScale /\ call.baseline_event_rate < 1000) =>
                   call.result = WholeRatioProbability(n, call.baseline_event_rate)

\* C14 witness: the call with hazard ratio 1.47 and baseline 2.5%
C14_Witness_SmokerAgainstBaseline ==
    /\ Converted
    /\ call.total_hr_score = 14700
    /\ call.baseline_event_rate = 25
    /\ call.result = 365

(***************************************************************************)
(* Properties of get_fhir_data                                             *)
(***************************************************************************)
\* the candidates of a search: the resources of its entries, none when it raised
Candidates(response) ==
    IF response.raises THEN {}
    ELSE {Val(response.entry[i].resource) :
              i \in {j \in 1..Len(response.entry) : ~IsNone(response.entry[j].resource)}}

\* b is more recent than a; an undated observation is older than every dated one
Later(a, b) ==
    /\ ~IsNone(b.effectiveDateTime)
    /\ \/ IsNone(a.effectiveDateTime)
       \/ StrLess(Val(a.effectiveDateTime), Val(b.effectiveDateTime))

MostRecent(response) ==
    {c \in Candidates(response) : \A d \in Candidates(response) : ~Later(c, d)}

PatientFetched(frame) == frame.name = "get_fhir_data" /\ "patient" \in DOMAIN frame.raw_data

\* C5: once the patient is fetched, a category whose every search raised is stored as
\* the empty list, a category whose search answered holds a resource of that answer,
\* what earlier categories stored stays as it was, get_fhir_data returns the bundle
\* with no error, and calculate_risk_api scores that bundle.
C5_Step ==
    /\ PatientFetched(call') =>
           /\ \A k \in call'.failed :
                  k \in DOMAIN call'.raw_data /\ call'.raw_data[k] = <<>>
           /\ PatientFetched(call) =>
                  \A k \in DOMAIN call.raw_data :
                      k \in DOMAIN call'.raw_data /\ call'.raw_data[k] = call.raw_data[k]
           /\ \A i \in 1..Len(call'.queries) :
                  LET answer == call'.queries[i].response
                      stored == call'.raw_data[Val(call'.resource_type)]
                  IN  Candidates(answer) # {} =>
                          /\ stored # <<>>
                          /\ Range(stored) \subseteq Candidates(answer)
           /\ ~IsNone(call'.result) =>
                  Val(call'.result) = [raw_data |-> Some(call'.raw_data), error |-> None]
    /\ (PatientFetched(call) /\ call'.name = "calculate_risk_api") =>
           /\ call'.status = 200
           /\ IsNone(call'.error)
           /\ call'.raw_data = Some(call.raw_data)
           /\ "total_score" \in DOMAIN call'

C5_PartialFailureStillScores == [][C5_Step]_vars

\* C5 witness: a completed assessment of a bundle in which the retrieval of a lab
\* parameter failed while another lab parameter was fetched.
C5_Witness_ScoredWithFailedCategory ==
    /\ call.name = "calculate_risk_api"
    /\ call.status = 200
    /\ "total_score" \in DOMAIN call
    /\ \E failed \in call.failed, kept \in Range(RESOURCE_TYPES) :
           /\ failed # "conditions"
           /\ Val(call.raw_data)[failed] = <<>>
           /\ Val(call.raw_data)[kept] # <<>>

Resolved ==
    /\ call.name = "get_fhir_data"
    /\ ~IsNone(call.resource_type)
    /\ Val(call.resource_type) \in Range(RESOURCE_TYPES)

\* C6: for the lab parameter just resolved, the first query is the coded one; the text
\* terms are queried in their configured order and only while no earlier query yielded a
\* candidate; the result is a most recent candidate of the first query that yielded one,
\* and the empty list, with no error, if every query was tried and none yielded.
C6_CodedFirstThenTermsUntilFirstMatch ==
    Resolved =>
        LET resource_type == Val(call.resource_type)
            queries == call.queries
            codes == LOINC_CODES[resource_type]
            text_terms == TEXT_SEARCH_TERMS[resource_type]
            last == queries[Len(queries)].response
            obs_list == call.raw_data[resource_type]
        IN  /\ Len(queries) >= 1
            /\ queries[1].kind = "code" /\ queries[1].param = codes
            /\ \A i \in 2..Len(queries) :
                   /\ queries[i].kind = "code:text"
                   /\ i - 1 <= Len(text_terms)
                   /\ queries[i].param = text_terms[i - 1]
            /\ \A i \in 1..(Len(queries) - 1) : Candidates(queries[i].response) = {}
            /\ IF Candidates(last) # {}
               THEN Len(obs_list) = 1 /\ obs_list[1] \in MostRecent(last)
               ELSE Len(queries) = 1 + Len(text_terms) /\ obs_list = <<>>
            /\ IsNone(call.result) \/ IsNone(Val(call.result).error)

\* C6 witness: the coded query yielded nothing, the first of two text terms yielded a
\* candidate, and the second term was not queried.
C6_Witness_StoppedAtFirstTerm ==
    /\ Resolved
    /\ Len(TEXT_SEARCH_TERMS[Val(call.resource_type)]) = 2
    /\ Len(call.queries) = 2
    /\ Candidates(call.queries[1].response) = {}
    /\ call.queries[2].param = TEXT_SEARCH_TERMS[Val(call.resource_type)][1]
    /\ call.raw_data[Val(call.resource_type)] # <<>>

(***************************************************************************)
(* Properties of the risk category and the risk curve                      *)
(***************************************************************************)
\* C7: a score of 22 or less is 'Not high bleeding risk', 23 to 26 is 'HBR', 27 or more
\* is 'Very HBR'; every score falls in exactly one category.
C7_CategoryThresholds ==
    call.name = "get_risk_category_info" =>
        LET score == call.precise_hbr_score
            category == call.result.category
        IN  /\ category \in {"Not high bleeding risk", "HBR", "Very HBR"}
            /\ category = "Not high bleeding risk" <=> score <= 22
            /\ category = "HBR" <=> (23 <= score /\ score <= 26)
            /\ category = "Very HBR" <=> score >= 27

\* C7 witness: the call at the boundary 26, which is still 'HBR'
C7_Witness_BoundaryIsHBR ==
    /\ call.name = "get_risk_category_info"
    /\ call.precise_hbr_score = 26
    /\ call.result.category = "HBR"

\* C8: the bleeding risk percentage never exceeds 15.0 and no higher score has a lower
\* percentage.
C8_RiskCurveMonotoneAndCapped ==
    call.name = "calculate_bleeding_risk_percentage" =>
        /\ call.result <= 15 * RiskScale
        /\ \A above \in ScoreRange :
               above >= call.precise_hbr_score =>
                   calculate_bleeding_risk_percentage(above) >= call.result
        /\ \A below \in ScoreRange :
               below <= call.precise_hbr_score =>
                   calculate_bleeding_risk_percentage(below) <= call.result

\* C8 witness: a call above the score at which the cap is reached
C8_Witness_CapReached ==
    /\ call.name = "calculate_bleeding_risk_percentage"
    /\ call.precise_hbr_score > 45
    /\ call.result = 15 * RiskScale

(***************************************************************************)
(* Properties of the unit conversion                                       *)
(***************************************************************************)
Measured == call.name = "get_value_from_observation"

\* the value as it stands and the value times a factor of the parameter's table
Unchanged(value) == Some(Val(value) * TenthToValue)
Times(value, factor) == Some(Val(value) * factor)

\* C16: get_value_from_observation applies its rules in order: an absent quantity, an
\* absent value or a value that is not a number gives no value; an empty or blank unit
\* gives the value unchanged; the canonical unit in any letter case gives the value
\* unchanged; a lower-cased unit of the parameter's factor table gives value x factor;
\* any other unit gives no value, never a default.
C16_ConversionRuleOrder ==
    Measured =>
        LET quantity == call.obs.valueQuantity
            table == TARGET_UNITS[call.parameter]
        IN  IF quantity = None THEN call.result = None
            ELSE LET value == Val(quantity).value
                     unit == Val(quantity).unit
                 IN  IF value = None \/ value = Str("12.5") THEN call.result = None
                     ELSE IF unit \in {"", " "} THEN call.result = Unchanged(value)
                     ELSE IF lower(unit) = table.unit THEN call.result = Unchanged(value)
                     ELSE IF lower(unit) \in DOMAIN table.factors
                          THEN call.result = Times(value, table.factors[lower(unit)])
                     ELSE call.result = None

\* 150.0 g/L of hemoglobin converted to 15.0 g/dL by the factor 0.1
C16_Witness_FactorApplied ==
    /\ Measured
    /\ call.parameter = "HEMOGLOBIN"
    /\ call.obs = Obs(1500, "g/L")
    /\ call.result = Some(15 * ValueScale)

(***************************************************************************)
(* Properties of the selection of the most recent observation              *)
(***************************************************************************)
Searched == call.name \in {"fetch_observations_by_loinc", "fetch_observations_by_text"}

\* the candidates of the answered search, in the order of the response
CandidateList(response) ==
    IF response.raises THEN <<>>
    ELSE LET with_resource == SelectSeq(response.entry, LAMBDA e : ~IsNone(e.resource))
         IN  [i \in 1..Len(with_resource) |-> Val(with_resource[i].resource)]

\* the moment an effective date names, in hours of universal time on a scale of 31-day
\* months; the dates of the model that carry a zone offset lie within one month
Instant(date) ==
    LET local == IF Len(date) > 3 THEN date[4] ELSE 0
        offset == IF Len(date) > 3
                  THEN (IF date[5] = 43 THEN date[6] ELSE 0 - date[6])
                  ELSE 0
    IN  ((date[1] * 12 + date[2]) * 31 + date[3]) * 24 + local - offset

\* a was taken before b; an observation without a date is before every dated one
Before(a, b) ==
    /\ ~IsNone(b.effectiveDateTime)
    /\ \/ IsNone(a.effectiveDateTime)
       \/ Instant(Val(a.effectiveDateTime)) < Instant(Val(b.effectiveDateTime))

\* C17: from a non-empty candidate set the search returns exactly one observation; no
\* candidate has a later effective date, a candidate without a date ranking below every
\* dated one; and every candidate placed earlier in the response has an earlier date, so
\* among the candidates of the latest date the first of the response is returned.
C17_LatestCandidateFirstOnTies ==
    Searched =>
        LET candidates == CandidateList(call.responses[Len(call.responses)])
            obs_list == call.result.obs_list
        IN  candidates # <<>> =>
                /\ Len(obs_list) = 1
                /\ \E i \in 1..Len(candidates) :
                       /\ candidates[i] = obs_list[1]
                       /\ \A j \in 1..Len(candidates) : ~Before(obs_list[1], candidates[j])
                       /\ \A j \in 1..(i - 1) : Before(candidates[j], obs_list[1])

(***************************************************************************)
(* Properties of the condition checks                                      *)
(***************************************************************************)
\* the codes of a condition in the SNOMED system, and its text in lower case
SnomedCodes(condition) ==
    {condition.code.coding[k].code :
         k \in {j \in 1..Len(condition.code.coding) :
                    condition.code.coding[j].system = SNOMED}}
Words(condition) ==
    {lower(w) : w \in Range(condition.code.text)}
    \cup UNION {{lower(w) : w \in Range(condition.code.coding[k].display)} :
                   k \in 1..Len(condition.code.coding)}

IsActiveStatus(condition) ==
    \E k \in 1..Len(condition.clinicalStatus) :
        /\ condition.clinicalStatus[k].system = CONDITION_CLINICAL
        /\ condition.clinicalStatus[k].code = "active"

\* carries the malignancy code, which is not one of the excluded codes, or names a
\* cancer in its text and no excluded skin cancer
NamesCancer(condition) ==
    \/ "363346000" \in SnomedCodes(condition) \ {"254637007", "254632001"}
    \/ /\ Words(condition) \cap Range(CANCER_KEYWORDS) # {}
       /\ Words(condition) \cap Range(CANCER_EXCLUSION_KEYWORDS) = {}

CancerChecked == call.name = "check_active_cancer_updated"

\* C21: check_active_cancer_updated is true exactly when some condition is active and
\* carries the malignancy code or has text with a cancer keyword and no exclusion
\* keyword; conditions that are not active never make it true.
C21_ActiveCancerIffActiveAndNamed ==
    CancerChecked =>
        (call.result <=>
            \E c \in 1..Len(call.conditions) :
                IsActiveStatus(call.conditions[c]) /\ NamesCancer(call.conditions[c]))

\* C21 witness: a resolved cancer and an excluded skin cancer give false
C21_Witness_ResolvedAndExcluded ==
    /\ CancerChecked
    /\ Len(call.conditions) = 2
    /\ ~IsActiveStatus(call.conditions[1]) /\ NamesCancer(call.conditions[1])
    /\ IsActiveStatus(call.conditions[2]) /\ ~NamesCancer(call.conditions[2])
    /\ "254637007" \in SnomedCodes(call.conditions[2])
    /\ call.result = FALSE

LiverChecked == call.name = "check_liver_cirrhosis_portal_hypertension_updated"

\* evidence of cirrhosis and of portal hypertension in one condition, by code or by
\* keyword; the portal-hypertension codes are those of the configuration file
CirrhosisEvidence(condition) ==
    \/ "19943007" \in SnomedCodes(condition)
    \/ "cirrhosis" \in Words(condition)
PortalHypertensionEvidence(condition) ==
    \/ cdss_config_file = "ok" /\ "34742003" \in SnomedCodes(condition)
    \/ Words(condition) \cap {"ascites", "portal hypertension", "esophageal varices",
                              "hepatic encephalopathy"} # {}

\* C22: the liver check is true if and only if some condition holds evidence of
\* cirrhosis and some condition, the same or another, before or after it, holds
\* evidence of portal hypertension; either kind alone gives false.
C22_LiverNeedsBothEvidences ==
    LiverChecked =>
        (call.result <=>
            /\ \E c \in 1..Len(call.conditions) : CirrhosisEvidence(call.conditions[c])
            /\ \E c \in 1..Len(call.conditions) :
                   PortalHypertensionEvidence(call.conditions[c]))

\* C22 witness: portal hypertension in the first record, cirrhosis in the second
C22_Witness_SeparateRecordsReversed ==
    /\ LiverChecked
    /\ Len(call.conditions) = 2
    /\ PortalHypertensionEvidence(call.conditions[1])
    /\ ~CirrhosisEvidence(call.conditions[1])
    /\ CirrhosisEvidence(call.conditions[2])
    /\ ~PortalHypertensionEvidence(call.conditions[2])
    /\ call.result = TRUE

(***************************************************************************)
(* Properties of the configuration singleton                               *)
(***************************************************************************)
\* C24: the import performs the one load, whether the file is usable or not; from then
\* on no step of any thread or operation changes the singleton or reads the file, also
\* when the file on disk has changed, and every thread that returns from
\* get_cdss_config holds the configuration of that one load.
C24_Step ==
    /\ pc = "import" => (file_reads' = 1 /\ ~IsNone(_CDSS_CONFIG'))
    /\ pc # "import" =>
           /\ _CDSS_CONFIG' = _CDSS_CONFIG
           /\ file_reads' = file_reads
           /\ call'.name = "get_cdss_config" =>
                  \A c \in Callers :
                      call'.at[c] = "returned" => call'.returned[c] = _CDSS_CONFIG

C24_LoadedOnceThenReadOnly == [][C24_Step]_vars

\* C24 witness: every thread has returned the configuration loaded at import although
\* the file has been removed since
C24_Witness_SameConfigAfterFileRemoved ==
    /\ call.name = "get_cdss_config"
    /\ cdss_config_file = "missing"
    /\ file_reads = 1
    /\ \A c \in Callers : call.returned[c] = Some(CDSS_CONFIG_JSON)

(***************************************************************************)
(* Properties of the trade-off factor detection                            *)
(***************************************************************************)
Detected == call.name = "detect_tradeoff_factors"

\* C25: with an undefined age the scorer reports the age component as unknown with score
\* 0 and the factor detection returns, without raising, a result that does not hold the
\* age >= 65 factor.
C25_UndefinedAgeNeverRaises ==
    /\ (Scored /\ IsNone(call.demographics.age)) =>
           /\ call.result.components[2].value = "Unknown"
           /\ call.result.components[2].score = 0
    /\ (Detected /\ IsNone(call.demographics.age)) =>
           /\ IsNone(call.result.raised)
           /\ "age_ge_65" \notin Val(call.result.value)

\* the factor names calculate_tradeoff_scores records for a result it returned
Activated(scores) ==
    {scores.bleeding_factors[i][1] : i \in 1..Len(scores.bleeding_factors)}
    \cup {scores.thrombotic_factors[i][1] : i \in 1..Len(scores.thrombotic_factors)}

\* the detection key and the name calculate_tradeoff_scores gives the same factor
SharedFactors ==
    {<<"age_ge_65", "Age >= 65">>,
     <<"hemoglobin_11_12.9", "Hb 11-12.9">>, <<"hemoglobin_lt_11", "Hb < 11">>,
     <<"egfr_30_59", "eGFR 30-59">>, <<"egfr_lt_30", "eGFR < 30">>}

\* whether a detection result and the result of calculate_tradeoff_scores for the same
\* arguments make the same age, hemoglobin and eGFR decisions
SameDecisions(detected, scored) ==
    /\ IsNone(detected.raised) <=> IsNone(scored.raised)
    /\ IsNone(detected.raised) =>
           \A f \in SharedFactors :
               f[1] \in Val(detected.value) <=> f[2] \in Activated(Val(scored.value))

\* C28: for the arguments of every detection, calculate_tradeoff_scores with a usable
\* model file activates the age, hemoglobin and eGFR factors that the detection
\* activates, also when the eGFR comes from creatinine.
C28_EntryPointsAgree ==
    Detected =>
        SameDecisions(call.result,
                      calculate_tradeoff_scores("ok", Val(_CDSS_CONFIG), call.raw_data,
                                                call.demographics, call.tradeoff_data))

(***************************************************************************)
(* Properties of the rounding                                              *)
(***************************************************************************)
\* k is the integer nearest to n / ScoreScale, the even one of the two at an exact tie
NearestTiesToEven(k, n) ==
    LET distance == IF n >= k * ScoreScale THEN n - k * ScoreScale ELSE k * ScoreScale - n
    IN  \/ 2 * distance < ScoreScale
        \/ 2 * distance = ScoreScale /\ k % 2 = 0

\* C26: the final score and the displayed age, hemoglobin, eGFR and WBC scores are each
\* the nearest integer of the unrounded amount with exact ties going to the even
\* integer; a total of 22.5 gives 22, shown as 'Not high bleeding risk', and a total of
\* 23.5 gives 24.
C26_RoundHalfToEvenThroughout ==
    /\ Scored =>
           LET components == call.result.components
               total_score == UnroundedSum(components)
           IN  /\ NearestTiesToEven(call.result.final_score, total_score)
               /\ NearestTiesToEven(components[2].score, UnroundedAge(components[2]))
               /\ NearestTiesToEven(components[3].score,
                                    UnroundedHemoglobin(components[3]))
               /\ NearestTiesToEven(components[4].score, UnroundedEgfr(components[4]))
               /\ NearestTiesToEven(components[5].score, UnroundedWbc(components[5]))
               /\ 2 * total_score = 45 * ScoreScale => call.result.final_score = 22
               /\ 2 * total_score = 47 * ScoreScale => call.result.final_score = 24
    /\ (Displayed /\ 2 * UnroundedSum(call.scored.result.components) = 45 * ScoreScale) =>
           /\ call.result.score = 22
           /\ call.result.risk_category = "Not high bleeding risk"

\* C26 witness: a total of exactly 23.5 was scored 24
C26_Witness_TieAt23AndAHalf ==
    /\ Scored
    /\ 2 * UnroundedSum(call.result.components) = 47 * ScoreScale
    /\ call.result.final_score = 24

\* a total of exactly 22.5 was scored 22 and displayed as not high bleeding risk
C26_Witness_TieAt22AndAHalf ==
    /\ Displayed
    /\ 2 * UnroundedSum(call.scored.result.components) = 45 * ScoreScale
    /\ call.result.risk_category = "Not high bleeding risk"

(***************************************************************************)
(* Properties of the results of get_fhir_data                              *)
(***************************************************************************)
\* get_fhir_data has returned
Fetched == pc = "fetched" /\ call.name = "get_fhir_data"

\* C27: a step in which the patient read fails returns no bundle and a non-empty error
\* message with no query issued, and no query follows a return; whatever get_fhir_data
\* returns is either a bundle or a non-empty error message and never both; after an
\* error the risk API answers 500 without a score.
C27_Step ==
    /\ (pc = "idle" /\ pc' = "fetched") =>
           /\ IsNone(Val(call'.result).raw_data)
           /\ ~IsNone(Val(call'.result).error)
           /\ call'.queries = <<>>
           /\ call'.failed = {}
    /\ pc' = "fetched" =>
           LET result == Val(call'.result)
           IN  /\ IsNone(result.raw_data) <=> ~IsNone(result.error)
               /\ ~IsNone(result.error) => Val(result.error) # ""
    /\ Fetched => call'.name = "calculate_risk_api"
    /\ (Fetched /\ ~IsNone(Val(call.result).error)) =>
           /\ call'.status = 500
           /\ "total_score" \notin DOMAIN call'
           /\ "score_components" \notin DOMAIN call'

C27_BundleOrErrorAndNoScoreOnError == [][C27_Step]_vars

\* C27 witness: the risk API has answered a failed patient read, for which no parameter
\* and no condition was queried, without a score
C27_Witness_PatientReadFailed ==
    /\ call.name = "calculate_risk_api"
    /\ call.status = 500
    /\ IsNone(call.raw_data)
    /\ call.failed = {}

(***************************************************************************)
(* Properties of the per-parameter resolution                              *)
(***************************************************************************)
Resolving == call.name = "resolve_parameters"

\* the observation list of one parameter alone, from the server's answers to its own
\* queries
ResolvedAlone(server, resource_type) ==
    LET coded == MostRecentOf(server[resource_type].code)
        terms == Get(TEXT_SEARCH_TERMS, resource_type, <<>>)
    IN  IF coded # <<>> \/ resource_type \notin DOMAIN TEXT_SEARCH_TERMS THEN coded
        ELSE IF \E i \in 1..Len(terms) : MostRecentOf(server[resource_type].text) # <<>>
        THEN MostRecentOf(server[resource_type].text)
        ELSE <<>>

\* C29: a step of one parameter's task leaves every other key of the bundle as it was,
\* a key once stored holds the list its parameter resolves to alone, and when all tasks
\* are done the bundle is the one the sequential loop builds.
C29_Step ==
    Resolving' =>
        /\ Resolving =>
               \A key \in DOMAIN call.raw_data :
                   key \in DOMAIN call'.raw_data /\ call'.raw_data[key] = call.raw_data[key]
        /\ \A resource_type \in DOMAIN call'.at :
               IF call'.at[resource_type] = "done"
               THEN /\ resource_type \in DOMAIN call'.raw_data
                    /\ call'.raw_data[resource_type]
                           = ResolvedAlone(call'.server, resource_type)
               ELSE resource_type \notin DOMAIN call'.raw_data
        /\ pc' = "returned" =>
               call'.raw_data = ResolveSequentially(Items(LOINC_CODES), call'.server,
                                                    [patient |-> call'.raw_data.patient])

C29_AnyOrderGivesSequentialBundle == [][C29_Step]_vars

\* C29 witness: all tasks are done, the last parameter of the loop was stored first and
\* the first one last, some lists came from the text search and some are empty
C29_Witness_ReverseOrderDone ==
    /\ Resolving
    /\ pc = "returned"
    /\ Len(call.resolved) = 5
    /\ call.resolved[1] = "PLATELETS"
    /\ call.resolved[5] = "EGFR"
    /\ call.raw_data.EGFR = <<>>
    /\ call.server.HEMOGLOBIN.code = Bundle(<<>>)
    /\ call.raw_data.HEMOGLOBIN # <<>>

(***************************************************************************)
(* Properties of the session                                               *)
(***************************************************************************)
Protected(frame) == Get(frame, "name", "none") \in {"login_required", "session_required"}

\* the session holds a non-empty server, token and client_id
HoldsCredentials(session) ==
    LET fhir_data == Get(session, "fhir_data", EmptyDict)
    IN  \A key \in REQUIRED_KEYS : key \in DOMAIN fhir_data /\ Filled(fhir_data[key])

\* C30: a protected handler runs only for a session that holds a non-empty server,
\* token and client_id; a protected request with a session that holds no session data,
\* as after a logout, is refused, with 401 on an /api path of login_required and with
\* a redirect otherwise.
C30_Step ==
    Protected(call') =>
        /\ call'.ran => HoldsCredentials(call'.session)
        /\ "fhir_data" \notin DOMAIN Cookie =>
               /\ ~call'.ran
               /\ call'.status = IF call'.name = "login_required"
                                    /\ call'.path = "/api/calculate_risk"
                                 THEN 401 ELSE 302

C30_ProtectedOnlyWithCredentials == [][C30_Step]_vars
====
